---- MODULE Spec2Model ----
(***************************************************************************)
(* fast-github-hosts: the resolution-and-ranking engine of                 *)
(* generate_github_hosts_ultimate.py (and its Pro twin): the three-layer   *)
(* resolver, the TCP latency prober, the JSON latency cache, the per-      *)
(* hostname ranking and the batch coordinator with its hostname workers.   *)
(***************************************************************************)
EXTENDS Integers, Sequences, FiniteSets, TLC

(***************************************************************************)
(* Program constants.                                                      *)
(***************************************************************************)
TCP_TEST_COUNT == 3
TOP_IP_COUNT == 3
CACHE_ENABLED == TRUE
\* The cut of query_ipaddress_com: list(set(valid_ips))[:5].
ScrapeLimit == 5
MAX_WORKERS == 10
\* The bound of the pool of get_fastest_ips: max_workers=min(len(ips), 5).
MaxProbeThreads == 5

(***************************************************************************)
(* Bounds of the model.                                                    *)
(***************************************************************************)
\* Significand width of the binary floating-point format (CPython: 53).
Prec == 8
\* Number of candidate addresses in a single-hostname run (SpecRank).
NumAddrRank == 4
\* Number of candidate addresses per hostname in a batch run (Spec).
NumAddrBatch == 1
\* Number of sequential update_cache calls of the cache driver (SpecCache).
MaxUpdates == 4
\* Number of distinct finite connect samples given to test_tcp_latency
\* (SpecMedian).
NumSamples == 4
\* Number of addresses the channels of get_all_ips may return (SpecResolve).
NumAddrResolve == 2
\* Number of addresses the network may answer with in a run over every kind
\* of cache file (SpecShape).
NumAddrShape == 2
\* Longest list of reachable addresses a worker hands to the coordinator
\* (SpecCoord).
MaxRanked == 2
\* Number of addresses the network may answer with when one hostname is
\* ranked twice (SpecTwin).
NumAddrTwin == 2
\* Number of resolvers the plaintext channel asks (SpecPlain).
NumResolvers == 3
\* Number of public addresses a scraped page may show (SpecScrape).
NumAddrScrape == 6
\* Length of the catalogue, and number of candidates of a hostname, in a
\* batch that fills its thread pools (SpecPool).
NumHostsPool == 12
NumAddrPool == 6
\* Number of addresses the network may answer with in a batch run to its
\* end (SpecLive).
NumAddrLive == 1

(***************************************************************************)
(* Python floats.  A finite float is [m, e] with value m * 2^e, m = 0 or   *)
(* 2^(Prec-1) <= m < 2^Prec; every operation rounds its exact result to    *)
(* the nearest float, ties to the even significand (IEEE 754).             *)
(* float('inf') is Inf.                                                    *)
(***************************************************************************)
Pow2(n) == 2 ^ n

Inf == [m |-> 0, e |-> 1]
Zero == [m |-> 0, e |-> 0]

IsInf(x) == x = Inf

\* num/den rounded to an integer, ties to even.
RoundHalfEven(num, den) ==
  LET q == num \div den
      r == num % den
  IN  IF 2 * r < den THEN q
      ELSE IF 2 * r > den THEN q + 1
      ELSE IF q % 2 = 0 THEN q ELSE q + 1

RECURSIVE Normalize(_, _, _)
\* <<num, den, e>> with the same value (num/den) * 2^e and
\* 2^(Prec-1) <= num/den < 2^Prec.   (num > 0, den > 0)
Normalize(num, den, e) ==
  IF num >= den * Pow2(Prec) THEN Normalize(num, 2 * den, e + 1)
  ELSE IF num < den * Pow2(Prec - 1) THEN Normalize(2 * num, den, e - 1)
  ELSE <<num, den, e>>

\* The float nearest to (num/den) * 2^e, of three integers.
RoundValue(num, den, e) ==
  IF num = 0 THEN Zero
  ELSE LET n == Normalize(num, den, e)
           m == RoundHalfEven(n[1], n[2])
       IN  IF m = Pow2(Prec) THEN [m |-> Pow2(Prec - 1), e |-> n[3] + 1]
           ELSE [m |-> m, e |-> n[3]]

\* The same of three expressions, each evaluated once before the rounding
\* (Python evaluates the operands of an operation before applying it).
RoundFloat(num, den, e) ==
  CHOOSE f \in {RoundValue(n, d, x) : n \in {num}, d \in {den}, x \in {e}} :
    TRUE

\* float(n) of a Python int n >= 0.
FromInt(n) == RoundFloat(n, 1, 0)

MinExp(x, y) == IF x.e < y.e THEN x.e ELSE y.e

\* x + y
FAdd(x, y) ==
  IF x.m = 0 THEN y
  ELSE IF y.m = 0 THEN x
  ELSE LET e == MinExp(x, y)
       IN  RoundFloat(x.m * Pow2(x.e - e) + y.m * Pow2(y.e - e), 1, e)

\* x * c for a Python int c >= 0
FMulInt(x, c) == RoundFloat(x.m * c, 1, x.e)

\* x / c for a Python int c > 0
FDivInt(x, c) == RoundFloat(x.m, c, x.e)

\* x < y on floats, float('inf') above every finite float.
FLess(x, y) ==
  IF IsInf(x) THEN FALSE
  ELSE IF IsInf(y) THEN TRUE
  ELSE LET e == MinExp(x, y)
       IN  x.m * Pow2(x.e - e) < y.m * Pow2(y.e - e)

FLeq(x, y) == ~FLess(y, x)

(***************************************************************************)
(* Lists.                                                                  *)
(***************************************************************************)
Range(s) == {s[i] : i \in 1..Len(s)}

\* Faulty variant: the slice that does not cut.
Take_NoCut(s, n) == s

\* s[:n]
Take(s, n) == SubSeq(s, 1, IF Len(s) < n THEN Len(s) ELSE n)

\* [r for r in results if r != float('inf')]
RECURSIVE FiniteOnly(_)
FiniteOnly(s) ==
  IF s = <<>> THEN <<>>
  ELSE IF IsInf(Head(s)) THEN FiniteOnly(Tail(s))
       ELSE <<Head(s)>> \o FiniteOnly(Tail(s))

\* x put into the sorted list s behind every element that is not above it.
RECURSIVE InsertFloat(_, _)
InsertFloat(x, s) ==
  IF s = <<>> THEN <<x>>
  ELSE IF FLess(x, Head(s)) THEN <<x>> \o s
       ELSE <<Head(s)>> \o InsertFloat(x, Tail(s))

\* results.sort() on a list of floats.
RECURSIVE SortFloats(_)
SortFloats(s) ==
  IF s = <<>> THEN <<>>
  ELSE InsertFloat(s[Len(s)], SortFloats(SubSeq(s, 1, Len(s) - 1)))

(***************************************************************************)
(* Latency prober.                                                         *)
(***************************************************************************)
\* Faulty variant: the upper middle sample instead of the average of the two.
test_tcp_latency_UpperMiddle(samples) ==
  LET results == SortFloats(FiniteOnly(samples))
  IN  IF results = <<>> THEN Inf ELSE results[Len(results) \div 2 + 1]

\* test_tcp_latency, given the samples its count calls of test_tcp_speed
\* returned (a latency in ms, or float('inf') for a failed connect).
test_tcp_latency(samples) ==
  LET results == SortFloats(FiniteOnly(samples))
      mid == Len(results) \div 2
  IN  IF results = <<>> THEN Inf
      ELSE IF Len(results) % 2 = 0
           THEN FDivInt(FAdd(results[mid], results[mid + 1]), 2)
           ELSE results[mid + 1]

(***************************************************************************)
(* Strings are lists of characters: a cache key is built by formatting    *)
(* and taken apart by startswith / split.                                  *)
(***************************************************************************)
\* Hostnames of the catalogue: the second has the first as a prefix.
HostA == <<"a">>
HostAB == <<"a", "b">>

AddrChars == <<"1", "2", "3", "4", "5", "6", "7", "8">>
\* The i-th address literal.
IpOf(i) == <<AddrChars[i]>>
Addrs(n) == {IpOf(i) : i \in 1..n}

\* f"{domain}:{ip}"
Key(domain, ip) == domain \o <<":">> \o ip

\* key.startswith(prefix)
StartsWith(key, prefix) ==
  /\ Len(key) >= Len(prefix)
  /\ SubSeq(key, 1, Len(prefix)) = prefix

\* key.split(':', 1)[1]: what follows the first colon of key.
SplitAfterColon(key) ==
  LET i == CHOOSE j \in 1..Len(key) :
             key[j] = ":" /\ \A k \in 1..(j - 1) : key[k] # ":"
  IN  SubSeq(key, i + 1, Len(key))

(***************************************************************************)
(* Measurement cache: the JSON file .github_hosts_cache.json.              *)
(* The file is [st, tbl]: absent; "json" holding the table tbl             *)
(* (key -> [count, avg_latency]; last_success, a timestamp nothing reads,  *)
(* is left out); "empty" right after open(..., 'w') truncated it;          *)
(* "garbage", bytes json.load rejects; or "misshapen", JSON text that       *)
(* json.load accepts but that is no object (a list, null, a number).       *)
(***************************************************************************)
EmptyTbl == [k \in {} |-> 0]
NoFile == [st |-> "absent", tbl |-> EmptyTbl]
TruncatedFile == [st |-> "empty", tbl |-> EmptyTbl]
GarbageFile(tbl) == [st |-> "garbage", tbl |-> tbl]
JsonFile(tbl) == [st |-> "json", tbl |-> tbl]
MisshapenFile == [st |-> "misshapen", tbl |-> EmptyTbl]

\* load_cache returns what json.load returned, and that is no dict.
LoadsNoDict(file) == CACHE_ENABLED /\ file.st = "misshapen"

\* load_cache: {} when the file is missing or json.load raises (for what it
\* returns on a misshapen file see LoadsNoDict).
load_cache(file) ==
  IF ~CACHE_ENABLED \/ file.st = "absent" THEN EmptyTbl
  ELSE IF file.st = "json" THEN file.tbl
  ELSE EmptyTbl

\* Faulty variant: an exponential average instead of the cumulative mean.
UpdatedCache_Exponential(cache, key, latency) ==
  LET old == IF key \in DOMAIN cache THEN cache[key]
             ELSE [count |-> 0, avg_latency |-> Zero]
      new == [count |-> old.count + 1,
              avg_latency |-> FDivInt(FAdd(old.avg_latency, latency), 2)]
  IN  [k \in DOMAIN cache \cup {key} |-> IF k = key THEN new ELSE cache[k]]

\* The body of update_cache between load_cache and save_cache: the loaded
\* table with the entry of key created if missing and then updated.
UpdatedCache(cache, key, latency) ==
  LET old == IF key \in DOMAIN cache THEN cache[key]
             ELSE [count |-> 0, avg_latency |-> Zero]
      old_avg == old.avg_latency
      count == old.count
      new == [count |-> count + 1,
              avg_latency |-> FDivInt(FAdd(FMulInt(old_avg, count), latency),
                                      count + 1)]
  IN  [k \in DOMAIN cache \cup {key} |-> IF k = key THEN new ELSE cache[k]]

\* The file after a writer that opened (and truncated) it earlier writes
\* its whole table from offset 0 and closes.  With another writer's bytes
\* already there since then, the longer text wins: this table's text
\* replaces a shorter one, and a longer one keeps its tail behind it.
WrittenFiles(file, cache) ==
  LET mine == Cardinality(DOMAIN cache)
      there == Cardinality(DOMAIN file.tbl)
  IN  IF file.st = "empty" THEN {JsonFile(cache)}
      ELSE IF file.tbl = cache /\ file.st = "json" THEN {JsonFile(cache)}
      ELSE IF mine > there THEN {JsonFile(cache)}
      ELSE IF mine < there THEN {GarbageFile(file.tbl)}
      ELSE {JsonFile(cache), GarbageFile(file.tbl)}

\* get_cached_ips: the addresses of the keys of domain, in file order.
get_cached_ips(cache, domain) ==
  {SplitAfterColon(key) :
     key \in {k \in DOMAIN cache : StartsWith(k, domain \o <<":">>)}}

(***************************************************************************)
(* Address resolver.  A channel (query_dns_doh_all, query_dns_traditional_ *)
(* all, query_ipaddress_com) either raises or returns a list of addresses. *)
(***************************************************************************)
Raised == [raised |-> TRUE, ips |-> {}]
Returned(S) == [raised |-> FALSE, ips |-> S]
ChannelOutcomes(A) == {Raised} \cup {Returned(S) : S \in SUBSET A}

\* Faulty variant: the scrape layer without its try/except.
get_all_ips_WebUnguarded(doh, trad, web, useDoh, useWeb) ==
  IF useDoh /\ ~doh.raised /\ doh.ips # {} THEN Returned(doh.ips)
  ELSE IF ~trad.raised /\ trad.ips # {} THEN Returned(trad.ips)
  ELSE IF useWeb /\ web.raised THEN Raised
  ELSE IF useWeb /\ web.ips # {} THEN Returned(web.ips)
  ELSE Returned({})

\* Faulty variant: the answers of every enabled channel merged.
get_all_ips_Merged(doh, trad, web, useDoh, useWeb) ==
  Returned((IF useDoh /\ ~doh.raised THEN doh.ips ELSE {})
             \cup (IF ~trad.raised THEN trad.ips ELSE {})
             \cup (IF useWeb /\ ~web.raised THEN web.ips ELSE {}))

\* The channels a call of get_all_ips queries, in the order of the calls.
get_all_ips_Queried(doh, trad, web, useDoh, useWeb) ==
  LET layer1 == IF useDoh THEN <<"doh">> ELSE <<>>
  IN  IF useDoh /\ ~doh.raised /\ doh.ips # {} THEN layer1
      ELSE IF ~trad.raised /\ trad.ips # {} THEN layer1 \o <<"trad">>
      ELSE layer1 \o <<"trad">> \o (IF useWeb THEN <<"web">> ELSE <<>>)

\* get_all_ips: DoH, then traditional DNS, then the web scrape; each layer
\* in its own try/except.
get_all_ips(doh, trad, web, useDoh, useWeb) ==
  IF useDoh /\ ~doh.raised /\ doh.ips # {} THEN Returned(doh.ips)
  ELSE IF ~trad.raised /\ trad.ips # {} THEN Returned(trad.ips)
  ELSE IF useWeb /\ ~web.raised /\ web.ips # {} THEN Returned(web.ips)
  ELSE Returned({})

(***************************************************************************)
(* Ranking and selection (get_fastest_ips).                                *)
(***************************************************************************)
\* The estimates a probe may return when each of its connects returns one
\* of the given samples.
Estimates(sampleSet) ==
  {test_tcp_latency(t) : t \in [1..TCP_TEST_COUNT -> sampleSet]}

\* results.items() is a list of <<ip, latency>> in insertion order.
RECURSIVE InsertItem(_, _)
InsertItem(x, s) ==
  IF s = <<>> THEN <<x>>
  ELSE IF FLess(x[2], Head(s)[2]) THEN <<x>> \o s
       ELSE <<Head(s)>> \o InsertItem(x, Tail(s))

\* Faulty variant: the items left in insertion order.
SortItems_Unsorted(s) == s

\* sorted(results.items(), key=lambda x: x[1])
RECURSIVE SortItems(_)
SortItems(s) ==
  IF s = <<>> THEN <<>>
  ELSE InsertItem(s[Len(s)], SortItems(SubSeq(s, 1, Len(s) - 1)))

\* [(ip, lat) for ip, lat in sorted_results if lat != float('inf')]
RECURSIVE ValidItems(_)
ValidItems(s) ==
  IF s = <<>> THEN <<>>
  ELSE IF IsInf(Head(s)[2]) THEN ValidItems(Tail(s))
       ELSE <<Head(s)>> \o ValidItems(Tail(s))

\* Faulty variant: without the all-failed branch, the sorted items are cut and
\* returned as they are.
RankedResults_NoFallback(res, ipset) ==
  LET valid == ValidItems(SortItems(res))
  IN  IF valid # <<>> THEN {Take(valid, TOP_IP_COUNT)}
      ELSE {Take(SortItems(res), TOP_IP_COUNT)}

\* The return values of get_fastest_ips once every probe is in: ips is
\* list(set(...)), so ips[0] is any of its members.
RankedResults(res, ipset) ==
  LET sorted_results == SortItems(res)
      valid == ValidItems(sorted_results)
  IN  IF valid # <<>> THEN {Take(valid, TOP_IP_COUNT)}
      ELSE IF ipset # {} THEN {<< <<a, Inf>> >> : a \in ipset}
      ELSE {<<>>}

(***************************************************************************)
(* Rendering (generate_hosts_content): the entry lines, each               *)
(* [ip, domain, latency].                                                  *)
(***************************************************************************)
\* Field widths of f"{ip:<20} {domain:<50} {latency_str}".
IpWidth == 20
DomainWidth == 50

\* f"{s:<n}": s, filled with spaces up to n characters, never cut.
PadRight(s, n) ==
  IF Len(s) >= n THEN s ELSE s \o [i \in 1..(n - Len(s)) |-> " "]

\* Faulty variant: the latency formatted without the test for float('inf').
LatencyStr_AlwaysMs(latency) == <<"#", " ", "m">>

\* latency_str: "# timeout", or "# " and the latency in ms (its digits are
\* not modelled: one character stands for them).
LatencyStr(latency) ==
  IF IsInf(latency) THEN <<"#", " ", "t">> ELSE <<"#", " ", "m">>

\* Faulty variant: the fields cut to their width.
FormatLine_Cut(ip, domain, latency) ==
  SubSeq(PadRight(ip, IpWidth), 1, IpWidth) \o <<" ">>
    \o SubSeq(PadRight(domain, DomainWidth), 1, DomainWidth) \o <<" ">>
    \o LatencyStr(latency)

\* f"{ip:<20} {domain:<50} {latency_str}"
FormatLine(ip, domain, latency) ==
  PadRight(ip, IpWidth) \o <<" ">> \o PadRight(domain, DomainWidth)
    \o <<" ">> \o LatencyStr(latency)

\* The lines before and after the entries: comments, and blank lines.
HeaderLines == << <<"#", " ", "h">>, <<"#">>, <<"#", " ", "=">>, <<>> >>
FooterLines == << <<>>, <<"#", " ", "=">>, <<>> >>

RECURSIVE EntryLines(_, _)
EntryLines(domain, ip_list) ==
  IF ip_list = <<>> THEN <<>>
  ELSE <<[ip |-> Head(ip_list)[1], domain |-> domain,
          latency |-> Head(ip_list)[2]]>>
       \o EntryLines(domain, Tail(ip_list))

\* Faulty variant: every entry rendered, whatever multi_ip says.
RECURSIVE generate_hosts_content_AlwaysMulti(_, _, _)
generate_hosts_content_AlwaysMulti(res, doms, multi) ==
  IF doms = <<>> THEN <<>>
  ELSE (IF Head(doms) \in DOMAIN res
        THEN EntryLines(Head(doms), res[Head(doms)])
        ELSE <<>>)
       \o generate_hosts_content_AlwaysMulti(res, Tail(doms), multi)

RECURSIVE generate_hosts_content(_, _, _)
generate_hosts_content(res, doms, multi) ==
  IF doms = <<>> THEN <<>>
  ELSE (IF Head(doms) \in DOMAIN res
        THEN IF multi THEN EntryLines(Head(doms), res[Head(doms)])
             ELSE EntryLines(Head(doms), <<res[Head(doms)][1]>>)
        ELSE <<>>)
       \o generate_hosts_content(res, Tail(doms), multi)

(***************************************************************************)
(* State.                                                                  *)
(***************************************************************************)
VARIABLES
  domains,        \* the catalogue of the run (get_domain_list)
  pool,           \* the addresses the network may answer with
  probe_samples,  \* the samples a connect of test_tcp_speed may return
  use_doh, use_cache, use_web, multi_ip,   \* arguments of generate_hosts_file
  cacheFile,      \* the cache file on disk
  cacheFile0,     \* the cache file when the run began
  pc,             \* per thread: where it stands
  resolved,       \* per worker: ips as returned by get_all_ips
  ips,            \* per worker: ips after the union with the cached ones
  results,        \* per worker: the results dict of get_fastest_ips
  retval,         \* per worker: what get_fastest_ips returned
  uc,             \* per thread: the call of update_cache it is in
  main_pc,        \* where generate_hosts_file stands
  batch_results,  \* results of generate_hosts_file
  key_order,      \* its keys in the order the dict got them
  success_count,  \* success_count of generate_hosts_file
  content,        \* the rendered entry lines
  gs_results,     \* global_state.results
  gs_stats,       \* global_state.stats
  calls,          \* the latencies the cache driver passed to update_cache
  samples,        \* the connect samples given to test_tcp_latency
  estimate,       \* <<its return value>> once it returned
  channels,       \* the outcomes of the three channels and the two flags
  resolver_ret,   \* <<return of get_all_ips, channels it queried>>, once it
                  \* returned
  reader,         \* a reader of global_state: where it stands, what it got
  net,            \* what the network answers to the channel under test
  channel_ret,    \* <<return of that channel>> once it returned
  probe_pc,       \* per worker and candidate: where its probe stands
  daemon,         \* the daemon loop: where it stands, what it holds
  hosts_file      \* the lines of the system hosts file

vars == <<domains, pool, probe_samples, use_doh, use_cache, use_web,
          multi_ip, cacheFile, cacheFile0, pc, resolved, ips, results, retval, uc, main_pc,
          batch_results, key_order, success_count, content, gs_results,
          gs_stats,
          calls, samples, estimate, channels, resolver_ret, reader, net,
          channel_ret, probe_pc, daemon, hosts_file>>

config == <<domains, pool, probe_samples, use_doh, use_cache, use_web,
           multi_ip, cacheFile0>>
lab == <<net, channel_ret, probe_pc, daemon, hosts_file>>
harness == <<calls, samples, estimate, channels, resolver_ret, reader, lab>>
coordinator == <<main_pc, batch_results, key_order, success_count, content,
                 gs_results, gs_stats>>

Threads == DOMAIN pc
NoCall == [key |-> <<>>, latency |-> Zero, cache |-> EmptyTbl, ret |-> "none"]
NoDict == [d \in {} |-> <<>>]
NoStats == [total_domains |-> 0, success_count |-> 0]
NoReader == [pc |-> "idle", results |-> NoDict, stats |-> NoStats]
LabIdle ==
  /\ net = <<>>
  /\ channel_ret = <<>>
  /\ probe_pc = <<>>
  /\ daemon = <<>>
  /\ hosts_file = <<>>
  /\ daemon = <<>>
  /\ hosts_file = <<>>

\* A cache entry as update_cache leaves it after one success at 20 ms.
Entry20 == [count |-> 1, avg_latency |-> FromInt(20)]
TblOf(keys) == [k \in keys |-> Entry20]

\* The cache files a run may find: none, an unreadable one, and tables
\* written by earlier runs (for either hostname, for the first addresses).
InitialFiles ==
  {NoFile, GarbageFile(EmptyTbl),
   JsonFile(TblOf({Key(HostA, IpOf(1))})),
   JsonFile(TblOf({Key(HostA, IpOf(1)), Key(HostAB, IpOf(2))}))}

InitRun(doms, addrs, sampleSet, files, caching, startAt) ==
  /\ domains = doms
  /\ pool = addrs
  /\ probe_samples = sampleSet
  /\ use_doh = TRUE
  /\ use_web = TRUE
  /\ use_cache \in caching
  /\ multi_ip = TRUE
  /\ cacheFile \in files
  /\ cacheFile0 = cacheFile
  /\ pc = [w \in 1..Len(doms) |-> startAt]
  /\ resolved = [w \in 1..Len(doms) |-> {}]
  /\ ips = [w \in 1..Len(doms) |-> {}]
  /\ results = [w \in 1..Len(doms) |-> <<>>]
  /\ retval = [w \in 1..Len(doms) |-> <<>>]
  /\ uc = [w \in 1..Len(doms) |-> NoCall]
  /\ main_pc = "collect"
  /\ batch_results = NoDict
  /\ key_order = <<>>
  /\ success_count = 0
  /\ content = <<>>
  /\ gs_results = NoDict
  /\ gs_stats = NoStats

HarnessIdle ==
  /\ calls = <<>>
  /\ samples = <<>>
  /\ estimate = <<>>
  /\ channels = <<>>
  /\ resolver_ret = <<>>
  /\ reader = NoReader
  /\ LabIdle

\* A batch over two hostnames.
Init ==
  /\ InitRun(<<HostA, HostAB>>, Addrs(NumAddrBatch), {FromInt(10), Inf},
             InitialFiles, BOOLEAN, "start")
  /\ HarnessIdle
\* A run over one hostname with more candidates than TOP_IP_COUNT.
InitRank ==
  /\ InitRun(<<HostA>>, Addrs(NumAddrRank), {FromInt(10), FromInt(20), Inf},
             {JsonFile(TblOf({Key(HostA, IpOf(1)), Key(HostAB, IpOf(2))}))},
             BOOLEAN, "start")
  /\ HarnessIdle

(***************************************************************************)
(* update_cache, a step per file operation.                                *)
(***************************************************************************)
\* update_cache up to save_cache: load_cache reads the file.
\* On a value that is no dict, cache[key] = {...} raises; the except of the
\* probe loop that called update_cache then sets results[ip] = float('inf').
UcLoad(w) ==
  /\ pc[w] = "uc_load"
  /\ IF LoadsNoDict(cacheFile)
     THEN /\ uc' = [uc EXCEPT ![w] = NoCall]
          /\ pc' = [pc EXCEPT ![w] = uc[w].ret]
          /\ results' =
               LET r == results[w]
               IN  IF r = <<>> THEN results
                   ELSE [results EXCEPT ![w] =
                           [r EXCEPT ![Len(r)] = <<r[Len(r)][1], Inf>>]]
     ELSE /\ uc' = [uc EXCEPT ![w].cache =
                UpdatedCache(load_cache(cacheFile), uc[w].key, uc[w].latency)]
          /\ pc' = [pc EXCEPT ![w] = "uc_open"]
          /\ UNCHANGED results
  /\ UNCHANGED <<config, cacheFile, resolved, ips, retval,
                 coordinator, harness>>

\* save_cache: open(CACHE_FILE, 'w') truncates the file.
UcOpen(w) ==
  /\ pc[w] = "uc_open"
  /\ cacheFile' = TruncatedFile
  /\ pc' = [pc EXCEPT ![w] = "uc_write"]
  /\ UNCHANGED <<config, resolved, ips, results, retval, uc,
                 coordinator, harness>>

\* save_cache: json.dump and the close that flushes it.
UcWrite(w) ==
  /\ pc[w] = "uc_write"
  /\ cacheFile' \in WrittenFiles(cacheFile, uc[w].cache)
  /\ pc' = [pc EXCEPT ![w] = uc[w].ret]
  /\ uc' = [uc EXCEPT ![w] = NoCall]
  /\ UNCHANGED <<config, resolved, ips, results, retval,
                 coordinator, harness>>

\* Address literals: reserved ones, ones that only look reserved, and
\* public ones.
Loopback == <<"1", "2", "7", ".", "1">>
ZeroNet == <<"0", ".", "1">>
LinkLocal == <<"1", "6", "9", ".", "2", "5", "4", ".", "1">>
Broadcast == <<"2", "5", "5", ".", "1">>
Near169 == <<"1", "6", "9", ".", "1">>
Near0 == <<"1", "0", ".", "1">>
Public(i) == <<"8", ".", AddrChars[i]>>

\* The prefixes of ip.startswith(('127.', '0.', '169.254.')).
PlainReserved ==
  {<<"1", "2", "7", ".">>, <<"0", ".">>,
   <<"1", "6", "9", ".", "2", "5", "4", ".">>}

\* ip.startswith(prefixes) with a tuple of prefixes.
StartsWithAny(ip, prefixes) == \E p \in prefixes : StartsWith(ip, p)

\* The prefixes of ip.startswith(('127.', '0.', '255.', '169.254.')).
ScrapeReserved ==
  {<<"1", "2", "7", ".">>, <<"0", ".">>, <<"2", "5", "5", ".">>,
   <<"1", "6", "9", ".", "2", "5", "4", ".">>}

\* What a channel that drops the addresses of these prefixes can return.
UnreservedOf(addrs, prefixes) ==
  {a \in addrs : ~StartsWithAny(a, prefixes)}

(***************************************************************************)
(* get_fastest_ips, run by the worker w of hostname domains[w].            *)
(***************************************************************************)
\* if not ips: return []
AfterGather(w, ipset) ==
  /\ ips' = [ips EXCEPT ![w] = ipset]
  /\ pc' = [pc EXCEPT ![w] = IF ipset = {} THEN "done" ELSE "probe"]

\* ips = get_all_ips(domain, use_doh, use_web)
Resolve(w) ==
  /\ pc[w] = "start"
  /\ \E doh \in ChannelOutcomes(pool),
        trad \in ChannelOutcomes(UnreservedOf(pool, PlainReserved)),
        web \in ChannelOutcomes(UnreservedOf(pool, ScrapeReserved)) :
        LET r == get_all_ips(doh, trad, web, use_doh, use_web)
        IN  IF r.raised
            THEN /\ pc' = [pc EXCEPT ![w] = "raised"]
                 /\ UNCHANGED <<resolved, ips>>
            ELSE /\ resolved' = [resolved EXCEPT ![w] = r.ips]
                 /\ IF use_cache
                    THEN /\ pc' = [pc EXCEPT ![w] = "readcache"]
                         /\ UNCHANGED ips
                    ELSE AfterGather(w, r.ips)
  /\ UNCHANGED <<config, cacheFile, results, retval, uc, coordinator,
                 harness>>

\* cached = get_cached_ips(domain); ips = list(set(ips + cached ips))
\* On a value that is no dict, cache.items() raises out of get_fastest_ips.
ReadCache(w) ==
  /\ pc[w] = "readcache"
  /\ IF LoadsNoDict(cacheFile)
     THEN /\ pc' = [pc EXCEPT ![w] = "raised"]
          /\ UNCHANGED ips
     ELSE AfterGather(w, resolved[w]
                      \cup get_cached_ips(load_cache(cacheFile), domains[w]))
  /\ UNCHANGED <<config, cacheFile, resolved, results, retval, uc,
                 coordinator, harness>>

Probed(w) == {results[w][i][1] : i \in 1..Len(results[w])}

\* Faulty variant: update_cache called for every probe, reachable or not.
ProbeDone_CacheAll(w) ==
  /\ pc[w] = "probe"
  /\ \E ip \in ips[w] \ Probed(w), lat \in Estimates(probe_samples) :
        /\ results' = [results EXCEPT ![w] = Append(@, <<ip, lat>>)]
        /\ uc' = [uc EXCEPT ![w] =
                    [key |-> Key(domains[w], ip), latency |-> lat,
                     cache |-> EmptyTbl, ret |-> "probe"]]
        /\ pc' = [pc EXCEPT ![w] = "uc_load"]
  /\ UNCHANGED <<config, cacheFile, resolved, ips, retval, coordinator,
                 harness>>

\* Faulty variant: results kept as a list of the completed probes over
\* candidates that were not deduplicated (one address listed twice).
ProbeDone_Relisted(w) ==
  /\ pc[w] = "probe"
  /\ Len(results[w]) <= Cardinality(ips[w])
  /\ \E ip \in ips[w], lat \in Estimates(probe_samples) :
        /\ results' = [results EXCEPT ![w] = Append(@, <<ip, lat>>)]
        /\ IF ~IsInf(lat) /\ CACHE_ENABLED
           THEN /\ uc' = [uc EXCEPT ![w] =
                           [key |-> Key(domains[w], ip), latency |-> lat,
                            cache |-> EmptyTbl, ret |-> "probe"]]
                /\ pc' = [pc EXCEPT ![w] = "uc_load"]
           ELSE UNCHANGED <<uc, pc>>
  /\ UNCHANGED <<config, cacheFile, resolved, ips, retval, coordinator,
                 harness>>

\* One turn of the as_completed loop: the probe of ip completed with
\* estimate lat; a reachable one goes on into update_cache.
ProbeDone(w) ==
  /\ pc[w] = "probe"
  /\ \E ip \in ips[w] \ Probed(w), lat \in Estimates(probe_samples) :
        /\ results' = [results EXCEPT ![w] = Append(@, <<ip, lat>>)]
        /\ IF ~IsInf(lat) /\ CACHE_ENABLED
           THEN /\ uc' = [uc EXCEPT ![w] =
                           [key |-> Key(domains[w], ip), latency |-> lat,
                            cache |-> EmptyTbl, ret |-> "probe"]]
                /\ pc' = [pc EXCEPT ![w] = "uc_load"]
           ELSE UNCHANGED <<uc, pc>>
  /\ UNCHANGED <<config, cacheFile, resolved, ips, retval, coordinator,
                 harness>>

\* Sort, cut to the top N and return.
Rank(w) ==
  /\ pc[w] = "probe"
  /\ ips[w] \ Probed(w) = {}
  /\ retval' \in {[retval EXCEPT ![w] = r] :
                   r \in RankedResults(results[w], ips[w])}
  /\ pc' = [pc EXCEPT ![w] = "done"]
  /\ UNCHANGED <<config, cacheFile, resolved, ips, results, uc,
                 coordinator, harness>>

(***************************************************************************)
(* Batch coordinator (generate_hosts_file).                                *)
(***************************************************************************)
workers == <<pc, resolved, ips, results, retval, uc>>

\* Faulty variant: the result stored without the test of ip_list.
Folded_Always(res, domain, ip_list) ==
  [d \in DOMAIN res \cup {domain} |-> IF d = domain THEN ip_list ELSE res[d]]

\* if ip_list: results[domain] = ip_list
Folded(res, domain, ip_list) ==
  IF ip_list # <<>>
  THEN [d \in DOMAIN res \cup {domain} |->
          IF d = domain THEN ip_list ELSE res[d]]
  ELSE res

\* Faulty variant: without the try around future.result(), the exception of
\* a worker leaves generate_hosts_file.
Fold_Abort(w) ==
  /\ main_pc = "collect"
  /\ pc[w] \in {"done", "raised"}
  /\ IF pc[w] = "done"
     THEN /\ pc' = [pc EXCEPT ![w] = "joined"]
          /\ batch_results' = Folded(batch_results, domains[w], retval[w])
          /\ key_order' = IF retval[w] # <<>>
                          THEN Append(key_order, domains[w]) ELSE key_order
          /\ success_count' =
               IF retval[w] # <<>> THEN success_count + 1 ELSE success_count
          /\ UNCHANGED main_pc
     ELSE /\ main_pc' = "returned"
          /\ UNCHANGED <<pc, batch_results, key_order, success_count>>
  /\ UNCHANGED <<config, cacheFile, resolved, ips, results, retval, uc,
                 content, gs_results, gs_stats, harness>>

\* One turn of its as_completed loop: the future of worker w is done.
Fold(w) ==
  /\ main_pc = "collect"
  /\ pc[w] \in {"done", "raised"}
  /\ pc' = [pc EXCEPT ![w] = "joined"]
  /\ IF pc[w] = "done"
     THEN /\ batch_results' = Folded(batch_results, domains[w], retval[w])
          /\ key_order' = IF retval[w] # <<>>
                          THEN Append(key_order, domains[w]) ELSE key_order
          /\ success_count' =
               IF retval[w] # <<>> THEN success_count + 1 ELSE success_count
     ELSE UNCHANGED <<batch_results, key_order, success_count>>
  /\ UNCHANGED <<config, cacheFile, resolved, ips, results, retval, uc,
                 main_pc, content, gs_results, gs_stats, harness>>

\* Faulty variant: the lines in the order of the keys of results.
Render_ByCompletion ==
  /\ main_pc = "collect"
  /\ \A w \in Threads : pc[w] = "joined"
  /\ content' = generate_hosts_content(batch_results, key_order, multi_ip)
  /\ \E written \in BOOLEAN :
        main_pc' = IF written THEN "update_results" ELSE "returned"
  /\ UNCHANGED <<config, cacheFile, workers, batch_results, key_order,
                 success_count, gs_results, gs_stats, harness>>

\* generate_hosts_content and the write of the output file, which may fail:
\* the function then returns without publishing.
Render ==
  /\ main_pc = "collect"
  /\ \A w \in Threads : pc[w] = "joined"
  /\ content' = generate_hosts_content(batch_results, domains, multi_ip)
  /\ \E written \in BOOLEAN :
        main_pc' = IF written THEN "update_results" ELSE "returned"
  /\ UNCHANGED <<config, cacheFile, workers, batch_results, key_order,
                 success_count,
                 gs_results, gs_stats, harness>>

\* global_state.update_results(results)
UpdateResults ==
  /\ main_pc = "update_results"
  /\ gs_results' = batch_results
  /\ main_pc' = "update_stats"
  /\ UNCHANGED <<config, cacheFile, workers, batch_results, key_order,
                 success_count,
                 content, gs_stats, harness>>

\* global_state.update_stats(stats)
UpdateStats ==
  /\ main_pc = "update_stats"
  /\ gs_stats' = [total_domains |-> Len(domains),
                  success_count |-> success_count]
  /\ main_pc' = "finished"
  /\ UNCHANGED <<config, cacheFile, workers, batch_results, key_order,
                 success_count,
                 content, gs_results, harness>>

Next ==
  \/ \E w \in Threads : Resolve(w)
  \/ \E w \in Threads : ReadCache(w)
  \/ \E w \in Threads : ProbeDone(w)
  \/ \E w \in Threads : UcLoad(w)
  \/ \E w \in Threads : UcOpen(w)
  \/ \E w \in Threads : UcWrite(w)
  \/ \E w \in Threads : Rank(w)
  \/ \E w \in Threads : Fold(w)
  \/ Render
  \/ UpdateResults
  \/ UpdateStats

\* get_fastest_ips alone.
NextRank ==
  \/ \E w \in Threads : Resolve(w)
  \/ \E w \in Threads : ReadCache(w)
  \/ \E w \in Threads : ProbeDone(w)
  \/ \E w \in Threads : UcLoad(w)
  \/ \E w \in Threads : UcOpen(w)
  \/ \E w \in Threads : UcWrite(w)
  \/ \E w \in Threads : Rank(w)

Spec == Init /\ [][Next]_vars
SpecRank == InitRank /\ [][NextRank]_vars

(***************************************************************************)
(* test_tcp_latency on its own: every list of TCP_TEST_COUNT samples.      *)
(***************************************************************************)
MedianSamples == {FromInt(10 * i) : i \in 1..NumSamples} \cup {Inf}

InitMedian ==
  /\ InitRun(<<>>, {}, {}, {NoFile}, {TRUE}, "start")
  /\ samples \in [1..TCP_TEST_COUNT -> MedianSamples]
  /\ estimate = <<>>
  /\ calls = <<>>
  /\ channels = <<>>
  /\ resolver_ret = <<>>
  /\ reader = NoReader
  /\ LabIdle

Measure ==
  /\ estimate = <<>>
  /\ samples # <<>>
  /\ estimate' = <<test_tcp_latency(samples)>>
  /\ UNCHANGED <<config, cacheFile, workers, coordinator, calls, samples,
                 channels, resolver_ret, reader, lab>>

NextMedian == Measure

SpecMedian == InitMedian /\ [][NextMedian]_vars

(***************************************************************************)
(* get_all_ips on its own: every outcome of the three channels.            *)
(***************************************************************************)
InitResolve ==
  /\ InitRun(<<>>, {}, {}, {NoFile}, {TRUE}, "start")
  /\ channels \in [doh : ChannelOutcomes(Addrs(NumAddrResolve)),
                    trad : ChannelOutcomes(Addrs(NumAddrResolve)),
                    web : ChannelOutcomes(Addrs(NumAddrResolve)),
                    use_doh : BOOLEAN, use_web : BOOLEAN]
  /\ resolver_ret = <<>>
  /\ calls = <<>>
  /\ samples = <<>>
  /\ estimate = <<>>
  /\ reader = NoReader
  /\ LabIdle

CallGetAllIps ==
  /\ resolver_ret = <<>>
  /\ channels # <<>>
  /\ resolver_ret' = <<get_all_ips(channels.doh, channels.trad, channels.web,
                                   channels.use_doh, channels.use_web),
                       get_all_ips_Queried(channels.doh, channels.trad,
                                           channels.web, channels.use_doh,
                                           channels.use_web)>>
  /\ UNCHANGED <<config, cacheFile, workers, coordinator, calls, samples,
                 estimate, channels, reader, lab>>

NextResolve == CallGetAllIps

SpecResolve == InitResolve /\ [][NextResolve]_vars

(***************************************************************************)
(* update_cache called again and again by one thread, for one pair that    *)
(* has no entry yet.                                                       *)
(***************************************************************************)
DriverLatencies == {FromInt(10), FromInt(20), FromInt(174)}
DriverKey == Key(HostA, IpOf(1))

InitCache ==
  /\ InitRun(<<HostA>>, {}, {}, {NoFile,
                                 JsonFile(TblOf({Key(HostAB, IpOf(2))}))},
             {TRUE}, "drv")
  /\ calls = <<>>
  /\ samples = <<>>
  /\ estimate = <<>>
  /\ channels = <<>>
  /\ resolver_ret = <<>>
  /\ reader = NoReader
  /\ LabIdle

\* update_cache(domain, ip, latency)
DriverCall(w) ==
  /\ pc[w] = "drv"
  /\ Len(calls) < MaxUpdates
  /\ \E latency \in DriverLatencies :
        /\ calls' = Append(calls, latency)
        /\ uc' = [uc EXCEPT ![w] = [key |-> DriverKey, latency |-> latency,
                                    cache |-> EmptyTbl, ret |-> "drv"]]
  /\ pc' = [pc EXCEPT ![w] = IF CACHE_ENABLED THEN "uc_load" ELSE "drv"]
  /\ UNCHANGED <<config, cacheFile, resolved, ips, results, retval,
                 coordinator, samples, estimate, channels, resolver_ret,
                 reader, lab>>

NextCache ==
  \/ \E w \in Threads : DriverCall(w)
  \/ \E w \in Threads : UcLoad(w)
  \/ \E w \in Threads : UcOpen(w)
  \/ \E w \in Threads : UcWrite(w)

SpecCache == InitCache /\ [][NextCache]_vars

(***************************************************************************)
(* Properties.                                                             *)
(***************************************************************************)
Finished(w) == pc[w] \in {"done", "joined"}
\* The candidates of worker w whose estimate is reachable.
Reachable(w) == {i \in 1..Len(results[w]) : ~IsInf(results[w][i][2])}
ResultAddrs(w) == {retval[w][i][1] : i \in 1..Len(retval[w])}
Min(a, b) == IF a < b THEN a ELSE b

\* C1: for a hostname with at least one reachable candidate, the Ranked
\* Result is sorted ascending by estimate, holds at most TOP_IP_COUNT
\* entries and none of them is unreachable.
C1_SortedTopNReachable ==
  \A w \in Threads :
    (Finished(w) /\ Reachable(w) # {}) =>
      /\ Len(retval[w]) <= TOP_IP_COUNT
      /\ \A i \in 1..Len(retval[w]) : ~IsInf(retval[w][i][2])
      /\ \A i, j \in 1..Len(retval[w]) :
            i < j => FLeq(retval[w][i][2], retval[w][j][2])

\* C1 witness: a run that returned three entries of different estimates
\* and had an unreachable candidate besides.
C1_Witness ==
  \E w \in Threads :
    /\ Finished(w)
    /\ Len(retval[w]) = TOP_IP_COUNT
    /\ retval[w][1][2] # retval[w][TOP_IP_COUNT][2]
    /\ \E i \in 1..Len(results[w]) : IsInf(results[w][i][2])

C3_AllFailedFallback ==
  \A w \in Threads :
    (Finished(w) /\ ips[w] # {} /\ Reachable(w) = {}) =>
      /\ Len(retval[w]) = 1
      /\ IsInf(retval[w][1][2])
      /\ retval[w][1][1] \in ips[w]

\* C3 witness: a finished run with several candidates, all unreachable.
C3_Witness ==
  \E w \in Threads :
    /\ Finished(w)
    /\ Cardinality(ips[w]) >= 2
    /\ Len(results[w]) = Cardinality(ips[w])
    /\ Reachable(w) = {}

LineDomains == {content[i].domain : i \in 1..Len(content)}

\* C4: a hostname with no candidate from resolution and cache gets the
\* empty Ranked Result and no probe, and is neither in the results of the
\* batch, nor in the published snapshot, nor in the rendered lines.
C4_NoCandidateNoEntry ==
  \A w \in Threads :
    (Finished(w) /\ ips[w] = {}) =>
      /\ retval[w] = <<>>
      /\ results[w] = <<>>
      /\ domains[w] \notin DOMAIN batch_results
      /\ domains[w] \notin DOMAIN gs_results
      /\ domains[w] \notin LineDomains

\* C4 witness: a published batch in which one hostname had no candidate
\* and another one is in the snapshot and in the lines.
C4_Witness ==
  /\ main_pc = "finished"
  /\ \E w \in Threads : ips[w] = {}
  /\ DOMAIN gs_results # {}
  /\ content # <<>>

AllAddrs == Addrs(Len(AddrChars))
\* The addresses the file records for domain: the a with a key "domain:a".
RecordedAddrs(file, domain) ==
  IF file.st = "json"
  THEN {a \in AllAddrs : Key(domain, a) \in DOMAIN file.tbl}
  ELSE {}

\* The worker is past the gathering of its candidates.
Gathered(w) == pc[w] \notin {"start", "readcache", "raised"}

\* C5: with caching enabled the candidates of a hostname are exactly the
\* addresses get_all_ips returned together with every address the cache
\* holds for that hostname (the entries the store held when the batch began:
\* the batch adds entries of a hostname only after its candidates are
\* gathered), and all of them, and nothing else, are probed before the run
\* ranks.
C5_CandidatesAreUnion ==
  \A w \in Threads :
    /\ (use_cache /\ Gathered(w)) =>
          ips[w] = resolved[w] \cup RecordedAddrs(cacheFile0, domains[w])
    /\ (Finished(w) /\ ips[w] # {}) => Probed(w) = ips[w]

Nothing(outcome) == outcome.raised \/ outcome.ips = {}

\* C6: get_all_ips never raises, whatever its channels do, and returns the
\* empty list when every enabled channel raised or returned nothing.
C6_ResolverNeverRaises ==
  resolver_ret # <<>> =>
    /\ ~resolver_ret[1].raised
    /\ ( /\ channels.use_doh => Nothing(channels.doh)
         /\ Nothing(channels.trad)
         /\ channels.use_web => Nothing(channels.web) )
       => resolver_ret[1].ips = {}

\* C6 witness: all three channels enabled, all three raised.
C6_Witness ==
  /\ resolver_ret # <<>>
  /\ channels.use_doh /\ channels.use_web
  /\ channels.doh.raised /\ channels.trad.raised /\ channels.web.raised

\* The trials that succeeded, and the k-th smallest of their samples.
Succeeded == {i \in 1..Len(samples) : ~IsInf(samples[i])}
IsKthSmallest(v, k) ==
  /\ \E i \in Succeeded : samples[i] = v
  /\ Cardinality({i \in Succeeded : FLess(samples[i], v)}) <= k - 1
  /\ Cardinality({i \in Succeeded : FLeq(samples[i], v)}) >= k

\* C7: test_tcp_latency returns unreachable exactly when every trial
\* failed, and otherwise the median of the successful samples alone: the
\* middle one, or the average of the two middle ones.
C7_MedianOfSuccesses ==
  estimate # <<>> =>
    LET n == Cardinality(Succeeded)
    IN  /\ IsInf(estimate[1]) <=> n = 0
        /\ (n > 0 /\ n % 2 = 1) => IsKthSmallest(estimate[1], (n + 1) \div 2)
        /\ (n > 0 /\ n % 2 = 0) =>
              \E lo, hi \in Range(samples) :
                /\ IsKthSmallest(lo, n \div 2)
                /\ IsKthSmallest(hi, n \div 2 + 1)
                /\ estimate[1] = FDivInt(FAdd(lo, hi), 2)

\* C7 witness: one trial failed and the two others differ.
C7_Witness ==
  /\ estimate # <<>>
  /\ Cardinality(Succeeded) = 2
  /\ \E i, j \in Succeeded : FLess(samples[i], samples[j])

\* The entry of the driver's pair in the cache file.
HasDriverEntry == cacheFile.st = "json" /\ DriverKey \in DOMAIN cacheFile.tbl
DriverEntry == cacheFile.tbl[DriverKey]
\* The driver is between two calls, with k = Len(calls) calls behind it.
BetweenCalls == calls # <<>> /\ \A w \in Threads : pc[w] = "drv"

\* Exact arithmetic on floats: x as an integer multiple of 2^e0.
Scaled(x, e0) == x.m * Pow2(x.e - e0)
LeastExp ==
  CHOOSE e0 \in {calls[i].e : i \in 1..Len(calls)} \cup {DriverEntry.avg_latency.e} :
    /\ \A i \in 1..Len(calls) : e0 <= calls[i].e
    /\ e0 <= DriverEntry.avg_latency.e
RECURSIVE SumScaled(_, _)
SumScaled(s, e0) ==
  IF s = <<>> THEN 0 ELSE Scaled(Head(s), e0) + SumScaled(Tail(s), e0)
Abs(n) == IF n < 0 THEN -n ELSE n

\* L1 + ... + Lk as the floats add up, left to right.
RECURSIVE FSum(_)
FSum(s) ==
  IF Len(s) = 1 THEN s[1] ELSE FAdd(FSum(SubSeq(s, 1, Len(s) - 1)), s[Len(s)])
SameLatency == \A i \in 1..Len(calls) : calls[i] = calls[1]

\* C8 as claimed: after k sequential updates L1..Lk of a pair that had no
\* entry, count is k, avg_latency is L when every Li is L, and
\* avg_latency * count equals L1 + ... + Lk (product and sum taken as the
\* floats give them).
C8_ExactMean ==
  BetweenCalls =>
    /\ HasDriverEntry
    /\ DriverEntry.count = Len(calls)
    /\ SameLatency => DriverEntry.avg_latency = calls[1]
    /\ FMulInt(DriverEntry.avg_latency, Len(calls)) = FSum(calls)

\* C8 amended: count is exactly k, and avg_latency is the mean of L1..Lk
\* up to the rounding of the three float operations of each update:
\* |avg - mean| <= g * mean with g = 3k*u / (1 - 3k*u), u = 2^-Prec.
C8_MeanUpToRounding ==
  BetweenCalls =>
    /\ HasDriverEntry
    /\ DriverEntry.count = Len(calls)
    /\ LET k == Len(calls)
           sum == SumScaled(calls, LeastExp)
           avg == Scaled(DriverEntry.avg_latency, LeastExp)
       IN  Abs(avg * k - sum) * (Pow2(Prec) - 3 * k) <= 3 * k * sum

\* C8 witness: three or more updates with one and the same latency have
\* left an average that is not that latency.
C8_Witness ==
  /\ BetweenCalls
  /\ HasDriverEntry
  /\ Len(calls) >= 3
  /\ SameLatency
  /\ DriverEntry.avg_latency # calls[1]

\* The count the file holds for a key (0 without an entry).
FileCount(file, key) ==
  IF file.st = "json" /\ key \in DOMAIN file.tbl THEN file.tbl[key].count
  ELSE 0
BatchOver == \A w \in Threads : pc[w] = "joined"

\* C9: no update of the cache is lost: once the hostname workers of a
\* batch are through, the count of every probed pair has grown by one if
\* its probe was reachable, and not at all otherwise.
C9_NoLostUpdate ==
  BatchOver =>
    \A w \in Threads : \A i \in 1..Len(results[w]) :
      LET key == Key(domains[w], results[w][i][1])
      IN  FileCount(cacheFile, key) =
            FileCount(cacheFile0, key)
              + (IF IsInf(results[w][i][2]) THEN 0 ELSE 1)

FileKeys(file) == IF file.st = "json" THEN DOMAIN file.tbl ELSE {}
Saving == \E w \in Threads : pc[w] = "uc_write"

\* C10: no cache entry is ever deleted: whenever no save_cache is between
\* its open and its close, every key the store held when the batch began
\* is still in it.
C10_NoKeyDeleted ==
  ~Saving => FileKeys(cacheFile0) \subseteq FileKeys(cacheFile)

(***************************************************************************)
(* The process is killed while its thread is inside update_cache.          *)
(***************************************************************************)
\* The kill finds the thread before the load, before the open, or between
\* the open that truncated the file and the close that flushes json.dump:
\* the file then stays truncated, or holds the part that was flushed.
Crash(w) ==
  /\ pc[w] \in {"uc_load", "uc_open", "uc_write"}
  /\ pc' = [pc EXCEPT ![w] = "crashed"]
  /\ cacheFile' \in IF pc[w] = "uc_write"
                    THEN {cacheFile, GarbageFile(EmptyTbl)}
                    ELSE {cacheFile}
  /\ UNCHANGED <<config, resolved, ips, results, retval, uc, coordinator,
                 harness>>

NextCrash ==
  \/ \E w \in Threads : DriverCall(w)
  \/ \E w \in Threads : UcLoad(w)
  \/ \E w \in Threads : UcOpen(w)
  \/ \E w \in Threads : UcWrite(w)
  \/ \E w \in Threads : Crash(w)

SpecCrash == InitCache /\ [][NextCrash]_vars

\* The table the store holds once the first n calls of the driver are
\* through.
RECURSIVE StoreAfter(_)
StoreAfter(n) ==
  IF n = 0 THEN load_cache(cacheFile0)
  ELSE UpdatedCache(StoreAfter(n - 1), DriverKey, calls[n])

Crashed == \E w \in Threads : pc[w] = "crashed"

\* C11: a crash inside update_cache loses at most the update in flight: the
\* file still holds every entry, count and average, that it held when that
\* update began.
C11_CrashKeepsStore ==
  Crashed =>
    LET before == StoreAfter(Len(calls) - 1)
    IN  \A k \in DOMAIN before :
          /\ k \in FileKeys(cacheFile)
          /\ cacheFile.tbl[k] = before[k]

\* C12: with use_cache false (--no-cache) every cache operation is a no-op:
\* the run takes no candidate from the cache file and leaves the file as it
\* found it.
C12_NoCacheNoEffect ==
  ~use_cache =>
    /\ cacheFile = cacheFile0
    /\ \A w \in Threads : Gathered(w) => ips[w] = resolved[w]

(***************************************************************************)
(* get_fastest_ips over every kind of cache file.                          *)
(***************************************************************************)
InitShape ==
  /\ InitRun(<<HostA>>, Addrs(NumAddrShape), {FromInt(10), Inf},
             {NoFile, GarbageFile(EmptyTbl), MisshapenFile,
              JsonFile(TblOf({Key(HostA, IpOf(1))}))},
             BOOLEAN, "start")
  /\ HarnessIdle

SpecShape == InitShape /\ [][NextRank]_vars

\* C13: whatever the cache file holds, get_fastest_ips does not raise, and
\* with a file that is missing or is no cache it ranks the candidates the
\* resolver returned.
C13_BadCacheNotFatal ==
  \A w \in Threads :
    /\ pc[w] # "raised"
    /\ (Finished(w) /\ cacheFile0.st # "json") => ips[w] = resolved[w]

(***************************************************************************)
(* A batch in which a hostname worker may fail.                            *)
(***************************************************************************)
\* The pool of get_fastest_ips cannot start its threads: executor.submit
\* raises, and the exception leaves get_fastest_ips.
Fault(w) ==
  /\ pc[w] = "probe"
  /\ results[w] = <<>>
  /\ pc' = [pc EXCEPT ![w] = "raised"]
  /\ UNCHANGED <<config, cacheFile, resolved, ips, results, retval, uc,
                 coordinator, harness>>

InitFault ==
  /\ InitRun(<<HostA, HostAB>>, Addrs(NumAddrBatch), {FromInt(10), Inf},
             InitialFiles \cup {MisshapenFile}, BOOLEAN, "start")
  /\ HarnessIdle

NextFault ==
  \/ \E w \in Threads : Resolve(w)
  \/ \E w \in Threads : ReadCache(w)
  \/ \E w \in Threads : ProbeDone(w)
  \/ \E w \in Threads : UcLoad(w)
  \/ \E w \in Threads : UcOpen(w)
  \/ \E w \in Threads : UcWrite(w)
  \/ \E w \in Threads : Rank(w)
  \/ \E w \in Threads : Fault(w)
  \/ \E w \in Threads : Fold(w)
  \/ Render
  \/ UpdateResults
  \/ UpdateStats

SpecFault == InitFault /\ [][NextFault]_vars

\* C14: an exception in the pipeline of one hostname does not abort the
\* batch: when generate_hosts_file is through with its workers, the future
\* of every hostname has been collected, every Ranked Result that was
\* returned is in the result mapping, and a hostname whose worker raised is
\* not.
C14_FaultDoesNotAbort ==
  main_pc # "collect" =>
    \A w \in Threads :
      /\ pc[w] = "joined"
      /\ IF retval[w] # <<>>
         THEN /\ domains[w] \in DOMAIN batch_results
              /\ batch_results[domains[w]] = retval[w]
         ELSE domains[w] \notin DOMAIN batch_results

\* C14 witness: a published batch in which the worker of one hostname
\* raised with candidates in hand and the other hostname is in the mapping.
C14_Witness ==
  /\ main_pc = "finished"
  /\ \E w \in Threads : ips[w] # {} /\ retval[w] = <<>>
  /\ \E w \in Threads : retval[w] # <<>> /\ domains[w] \in DOMAIN gs_results

(***************************************************************************)
(* generate_hosts_file from the moment every hostname worker has returned, *)
(* next to a reader of global_state (the HTTP handler).                    *)
(***************************************************************************)
\* A hostname longer than the field it is rendered in.
HostLong == [i \in 1..(DomainWidth + 1) |-> "c"]

\* Ranked Results get_fastest_ips returns: none, the all-failed fallback,
\* and n reachable addresses, fastest first.
Ranked(n) == [i \in 1..n |-> <<IpOf(i), FromInt(10 * i)>>]
RankedChoices ==
  {<<>>, << <<IpOf(1), Inf>> >>}
    \cup {Take(Ranked(n), TOP_IP_COUNT) : n \in 1..MaxRanked}

\* The snapshot an earlier run published.
PrevResults == [d \in {HostAB} |-> << <<IpOf(3), FromInt(20)>> >>]
PrevStats == [total_domains |-> 3, success_count |-> 1]

InitCoord ==
  /\ domains = <<HostA, HostAB, HostLong>>
  /\ pool = Addrs(MaxRanked)
  /\ probe_samples = {FromInt(10), Inf}
  /\ use_doh = TRUE
  /\ use_web = TRUE
  /\ use_cache = TRUE
  /\ multi_ip \in BOOLEAN
  /\ cacheFile = NoFile
  /\ cacheFile0 = cacheFile
  /\ pc = [w \in 1..Len(domains) |-> "done"]
  /\ retval \in [1..Len(domains) -> RankedChoices]
  /\ results = retval
  /\ ips = [w \in 1..Len(domains) |-> ResultAddrs(w)]
  /\ resolved = ips
  /\ uc = [w \in 1..Len(domains) |-> NoCall]
  /\ main_pc = "collect"
  /\ batch_results = NoDict
  /\ key_order = <<>>
  /\ success_count = 0
  /\ content = <<>>
  /\ \E snapshot \in {<<NoDict, NoStats>>, <<PrevResults, PrevStats>>} :
        /\ gs_results = snapshot[1]
        /\ gs_stats = snapshot[2]
  /\ HarnessIdle

\* global_state.get_results()
ReadResults ==
  /\ reader.pc = "idle"
  /\ reader' = [reader EXCEPT !.pc = "got_results", !.results = gs_results]
  /\ UNCHANGED <<config, cacheFile, workers, coordinator, calls, samples,
                 estimate, channels, resolver_ret, lab>>

\* global_state.get_stats()
ReadStats ==
  /\ reader.pc = "got_results"
  /\ reader' = [reader EXCEPT !.pc = "done", !.stats = gs_stats]
  /\ UNCHANGED <<config, cacheFile, workers, coordinator, calls, samples,
                 estimate, channels, resolver_ret, lab>>

NextCoord ==
  \/ \E w \in Threads : Fold(w)
  \/ Render
  \/ UpdateResults
  \/ UpdateStats
  \/ ReadResults
  \/ ReadStats

SpecCoord == InitCoord /\ [][NextCoord]_vars

\* The place of a hostname in the catalogue.
CatIndex(d) == CHOOSE i \in 1..Len(domains) : domains[i] = d
\* The lines of hostname d, in the order they have in the artifact.
RECURSIVE LinesFor(_, _)
LinesFor(lines, d) ==
  IF lines = <<>> THEN <<>>
  ELSE IF Head(lines).domain = d
       THEN <<Head(lines)>> \o LinesFor(Tail(lines), d)
       ELSE LinesFor(Tail(lines), d)
Rendered == main_pc # "collect"

\* C15: whatever the order in which the workers completed, the lines of the
\* artifact follow the catalogue (so the lines of one hostname are
\* contiguous), and the lines of a hostname follow its Ranked Result.
C15_CatalogueOrder ==
  Rendered =>
    /\ \A i, j \in 1..Len(content) :
         i < j => CatIndex(content[i].domain) <= CatIndex(content[j].domain)
    /\ \A w \in Threads :
         LET mine == LinesFor(content, domains[w])
         IN  /\ Len(mine) <= Len(retval[w])
             /\ \A i \in 1..Len(mine) :
                  <<mine[i].ip, mine[i].latency>> = retval[w][i]

\* C15 witness: the workers completed against the catalogue order, and the
\* artifact has lines of two hostnames, several of them for one.
C15_Witness ==
  /\ Rendered
  /\ Len(key_order) >= 2
  /\ CatIndex(key_order[1]) > CatIndex(key_order[2])
  /\ \E w \in Threads : Len(LinesFor(content, domains[w])) >= 2

\* The stats generate_hosts_file builds for its run.
RunStats == [total_domains |-> Len(domains), success_count |-> success_count]
\* The snapshots there are: the ones found at the start and the one of
\* this run.
Snapshots ==
  {<<NoDict, NoStats>>, <<PrevResults, PrevStats>>, <<batch_results, RunStats>>}

\* C16: a reader that calls get_results and get_stats gets the result
\* mapping and the statistics of one and the same snapshot.
C16_SnapshotAtomic ==
  reader.pc = "done" => <<reader.results, reader.stats>> \in Snapshots

\* generate_hosts_file has returned, with or without its artifact written.
RunOver == main_pc \in {"finished", "returned"}

\* C17: every run that finishes, the one whose artifact could not be
\* written included, leaves its own snapshot in global_state.
C17_RunPublishesSnapshot ==
  RunOver => gs_results = batch_results /\ gs_stats = RunStats

\* A batch that may find a cache file that is no dict; nothing else fails.
SpecBadCache == InitFault /\ [][Next]_vars

\* C18: a hostname is left out of the artifact only when no address was
\* obtained for it: a hostname for which the resolver or the cache gave a
\* candidate has a line.
C18_OmittedOnlyWithoutAddress ==
  Rendered =>
    \A w \in Threads :
      (resolved[w] \cup ips[w]) # {} => domains[w] \in LineDomains

\* The <<address, latency>> pairs of a list of lines.
Pairs(lines) == [i \in 1..Len(lines) |-> <<lines[i].ip, lines[i].latency>>]

\* C19: in multi-address mode a hostname has one line per entry of its
\* Ranked Result; in single-address mode a hostname with a non-empty result
\* has exactly one line, that of the first entry; and there is no other
\* line.
C19_LinesPerMode ==
  Rendered =>
    /\ \A i \in 1..Len(content) : content[i].domain \in Range(domains)
    /\ \A w \in Threads :
         LET mine == Pairs(LinesFor(content, domains[w]))
         IN  IF multi_ip \/ retval[w] = <<>>
             THEN mine = retval[w]
             ELSE mine = <<retval[w][1]>>

\* C19 witness: single-address mode, a Ranked Result of several entries.
C19_Witness ==
  /\ Rendered
  /\ ~multi_ip
  /\ \E w \in Threads :
       /\ Len(retval[w]) >= 2
       /\ Len(LinesFor(content, domains[w])) = 1

\* The artifact as text: the list of its lines, each a list of characters.
Artifact ==
  HeaderLines
    \o [i \in 1..Len(content) |->
          FormatLine(content[i].ip, content[i].domain, content[i].latency)]
    \o FooterLines

(***************************************************************************)
(* Reading a hosts file: a "#" starts a comment, the fields of a line are  *)
(* separated by blanks, the first is the address, the second the hostname. *)
(***************************************************************************)
\* The line up to its first "#".
StripComment(line) ==
  LET hashes == {i \in 1..Len(line) : line[i] = "#"}
  IN  IF hashes = {} THEN line
      ELSE SubSeq(line, 1, (CHOOSE i \in hashes : \A j \in hashes : i <= j) - 1)

\* The places where a field of the line begins.
FieldStarts(line) ==
  {i \in 1..Len(line) : line[i] # " " /\ (i = 1 \/ line[i - 1] = " ")}

\* The fields of a line, in order.
Fields(line) ==
  LET starts == FieldStarts(line)
  IN  [k \in 1..Cardinality(starts) |->
         LET s == CHOOSE x \in starts :
                    Cardinality({y \in starts : y < x}) = k - 1
             e == CHOOSE x \in s..Len(line) :
                    /\ \A j \in s..x : line[j] # " "
                    /\ x = Len(line) \/ line[x + 1] = " "
         IN  SubSeq(line, s, e)]

\* The <<address, hostname>> pairs of a text, in the order of its lines.
RECURSIVE ParsePairs(_)
ParsePairs(text) ==
  IF text = <<>> THEN <<>>
  ELSE LET f == Fields(StripComment(Head(text)))
       IN  (IF Len(f) >= 2 THEN << <<f[1], f[2]>> >> ELSE <<>>)
             \o ParsePairs(Tail(text))

\* The addresses paired with hostname d, in order.
RECURSIVE AddrsFor(_, _)
AddrsFor(pairs, d) ==
  IF pairs = <<>> THEN <<>>
  ELSE (IF Head(pairs)[2] = d THEN <<Head(pairs)[1]>> ELSE <<>>)
         \o AddrsFor(Tail(pairs), d)

\* C20: in multi-address mode, reading the (address, hostname) pairs back
\* from the text of the artifact gives, for every hostname, the addresses
\* of its Ranked Result in their order, and no pair of any other hostname.
C20_RenderParseRoundTrip ==
  (Rendered /\ multi_ip) =>
    LET pairs == ParsePairs(Artifact)
    IN  /\ \A i \in 1..Len(pairs) : pairs[i][2] \in Range(domains)
        /\ \A w \in Threads :
             AddrsFor(pairs, domains[w])
               = [i \in 1..Len(retval[w]) |-> retval[w][i][1]]

\* C20 witness: an artifact in multi-address mode with several lines for
\* the hostname that is longer than its field, and lines of another one.
C20_Witness ==
  /\ Rendered
  /\ multi_ip
  /\ Len(LinesFor(content, HostLong)) >= 2
  /\ LinesFor(content, HostA) # <<>>

\* The place of an address literal in the ascending order of addresses.
AddrIndex(a) == CHOOSE i \in 1..Len(AddrChars) : IpOf(i) = a

\* C22: addresses of equal estimate stand in the Ranked Result in ascending
\* order of address, whatever the order in which their probes completed.
C22_TiesByAddress ==
  \A w \in Threads :
    Finished(w) =>
      \A i, j \in 1..Len(retval[w]) :
        (i < j /\ retval[w][i][2] = retval[w][j][2]) =>
          AddrIndex(retval[w][i][1]) < AddrIndex(retval[w][j][1])

(***************************************************************************)
(* Two runs of get_fastest_ips for one and the same hostname, side by      *)
(* side.                                                                   *)
(***************************************************************************)
InitTwin ==
  /\ InitRun(<<HostA, HostA>>, Addrs(NumAddrTwin), {FromInt(10), Inf},
             {NoFile, JsonFile(TblOf({Key(HostA, IpOf(1))}))},
             BOOLEAN, "start")
  /\ HarnessIdle

SpecTwin == InitTwin /\ [][NextRank]_vars

\* C23: the all-probes-failed fallback is stable: two runs for a hostname
\* that got the same addresses from the resolver and the same candidates
\* from resolver and cache, and in which every probe failed, return the same
\* single address.
C23_FallbackStable ==
  \A v, w \in Threads :
    ( /\ Finished(v) /\ Finished(w)
      /\ domains[v] = domains[w]
      /\ resolved[v] = resolved[w]
      /\ ips[v] = ips[w]
      /\ ips[v] # {}
      /\ Reachable(v) = {} /\ Reachable(w) = {} )
    => retval[v] = retval[w]

\* The place of a channel in the order of the layers.
LayerOf(name) == CHOOSE i \in 1..3 : <<"doh", "trad", "web">>[i] = name

\* C24: get_all_ips is an ordered, short-circuiting fallback: the channels
\* are queried in the order encrypted, plaintext, scrape; the plaintext
\* channel only if the encrypted one is disabled or yielded no address, the
\* scrape channel only if it is enabled and both others yielded none; and
\* what is returned is exactly the output of the first channel that yielded
\* an address (the empty list if none did).
C24_OrderedFallback ==
  resolver_ret # <<>> =>
    LET c == channels
        ret == resolver_ret[1]
        queried == resolver_ret[2]
        noDoh == ~c.use_doh \/ Nothing(c.doh)
    IN  /\ \A i, j \in 1..Len(queried) :
             i < j => LayerOf(queried[i]) < LayerOf(queried[j])
        /\ "doh" \in Range(queried) => c.use_doh
        /\ "trad" \in Range(queried) => noDoh
        /\ "web" \in Range(queried) => (c.use_web /\ noDoh /\ Nothing(c.trad))
        /\ ~ret.raised
        /\ ret.ips = IF ~noDoh THEN c.doh.ips
                     ELSE IF ~Nothing(c.trad) THEN c.trad.ips
                     ELSE IF c.use_web /\ ~Nothing(c.web) THEN c.web.ips
                     ELSE {}

\* C24 witness: all three channels were queried and the scrape channel's
\* addresses returned, although the plaintext channel, which raised, and the
\* encrypted one, which returned nothing, were asked first.
C24_Witness ==
  /\ resolver_ret # <<>>
  /\ resolver_ret[2] = <<"doh", "trad", "web">>
  /\ channels.trad.raised
  /\ ~channels.doh.raised
  /\ resolver_ret[1].ips = channels.web.ips
  /\ Cardinality(channels.web.ips) >= 2

(***************************************************************************)
(* The plaintext channel (query_dns_traditional_all) on its own: every     *)
(* list of resolver answers, in the order in which the resolvers           *)
(* completed.                                                              *)
(***************************************************************************)
\* [ip for ip in l if not ip.startswith(prefixes)]
RECURSIVE Unreserved(_, _)
Unreserved(l, prefixes) ==
  IF l = <<>> THEN <<>>
  ELSE (IF StartsWithAny(Head(l), prefixes) THEN <<>> ELSE <<Head(l)>>)
         \o Unreserved(Tail(l), prefixes)

\* list(set(l)): each element of l once, in the order the set iterates,
\* which is any order.
RECURSIVE ListsOfSet(_)
ListsOfSet(S) ==
  IF S = {} THEN {<<>>}
  ELSE UNION {{<<x>> \o l : l \in ListsOfSet(S \ {x})} : x \in S}

\* all_ips after the as_completed loop: the answers one after the other, an
\* answer whose future raised left out.
RECURSIVE Extended(_)
Extended(answers) ==
  IF answers = <<>> THEN <<>>
  ELSE (IF Head(answers).raised THEN <<>> ELSE Head(answers).ips)
         \o Extended(Tail(answers))

\* Faulty variant: the merge without set().
query_dns_traditional_all_NoSet(answers) ==
  {Unreserved(Extended(answers), PlainReserved)}

\* query_dns_traditional_all: the lists it may return, given the answers of
\* the resolvers in completion order.
query_dns_traditional_all(answers) ==
  {Unreserved(unique_ips, PlainReserved) :
     unique_ips \in ListsOfSet(Range(Extended(answers)))}

\* What one resolver may answer: its query raised, or a list of addresses.
Answer(l) == [raised |-> FALSE, ips |-> l]
PlainAnswers ==
  {[raised |-> TRUE, ips |-> <<>>], Answer(<<>>), Answer(<<Public(1)>>),
   Answer(<<Public(1), Loopback>>), Answer(<<Public(2), Public(1)>>),
   Answer(<<ZeroNet>>), Answer(<<LinkLocal, Near169>>),
   Answer(<<Near0, Public(2)>>)}

InitPlain ==
  /\ InitRun(<<>>, {}, {}, {NoFile}, {TRUE}, "start")
  /\ calls = <<>>
  /\ samples = <<>>
  /\ estimate = <<>>
  /\ channels = <<>>
  /\ resolver_ret = <<>>
  /\ reader = NoReader
  /\ net \in [kind : {"dns"}, answers : [1..NumResolvers -> PlainAnswers]]
  /\ channel_ret = <<>>
  /\ probe_pc = <<>>
  /\ daemon = <<>>
  /\ hosts_file = <<>>

CallPlain ==
  /\ channel_ret = <<>>
  /\ net # <<>>
  /\ net.kind = "dns"
  /\ \E r \in query_dns_traditional_all(net.answers) : channel_ret' = <<r>>
  /\ UNCHANGED <<config, cacheFile, workers, coordinator, calls, samples,
                 estimate, channels, resolver_ret, reader, net, probe_pc,
                 daemon, hosts_file>>

NextPlain == CallPlain

SpecPlain == InitPlain /\ [][NextPlain]_vars

\* The addresses the resolvers that answered gave.
Answered ==
  UNION {Range(net.answers[i].ips) :
           i \in {j \in 1..Len(net.answers) : ~net.answers[j].raised}}
\* An address of the loopback (127.), 0. or 169.254. range.
InReservedRange(ip) ==
  \/ StartsWith(ip, <<"1", "2", "7", ".">>)
  \/ StartsWith(ip, <<"0", ".">>)
  \/ StartsWith(ip, <<"1", "6", "9", ".", "2", "5", "4", ".">>)
NoDuplicates(l) == \A i, j \in 1..Len(l) : i # j => l[i] # l[j]

\* C25: the plaintext channel returns the merge of all resolver answers,
\* each address once, with every address of the 127., 0. and 169.254.
\* ranges removed and nothing else, whichever resolvers answered and in
\* whatever order they completed.
C25_PlainMergedFiltered ==
  (channel_ret # <<>> /\ net.kind = "dns") =>
    /\ NoDuplicates(channel_ret[1])
    /\ Range(channel_ret[1]) = {a \in Answered : ~InReservedRange(a)}

\* C25 witness: two resolvers gave the same public address, a reserved
\* address was answered too, and the channel returned two addresses.
C25_Witness ==
  /\ channel_ret # <<>>
  /\ net.kind = "dns"
  /\ \E i, j \in 1..Len(net.answers) :
       /\ i # j
       /\ Range(net.answers[i].ips) \cap Range(net.answers[j].ips) # {}
  /\ \E a \in Answered : InReservedRange(a)
  /\ Len(channel_ret[1]) >= 2

(***************************************************************************)
(* The scrape channel (query_ipaddress_com) on its own: every outcome of   *)
(* the fetch, and pages with more addresses than the channel returns.      *)
(***************************************************************************)
\* Faulty variant: every address of the page returned, without the cut.
query_ipaddress_com_NoCap(page) ==
  IF ~page.raised /\ page.status_code = 200
  THEN ListsOfSet(Range(Unreserved(page.found, ScrapeReserved)))
  ELSE {<<>>}

\* query_ipaddress_com: the lists it may return, given whether the fetch
\* raised, the status code, and the matches of the pattern in the page.
query_ipaddress_com(page) ==
  IF ~page.raised /\ page.status_code = 200
  THEN {Take(l, ScrapeLimit) :
          l \in ListsOfSet(Range(Unreserved(page.found, ScrapeReserved)))}
  ELSE {<<>>}

\* The public addresses i <= n that are picked, in the order of i.
RECURSIVE Picked(_, _)
Picked(pick, n) ==
  IF n = 0 THEN <<>>
  ELSE Picked(pick, n - 1) \o (IF pick[n] THEN <<Public(n)>> ELSE <<>>)

\* The matches of the pattern in a page: public addresses, reserved ones
\* and look-alikes between them, an address matched a second time.
PageMatches ==
  {Picked(pick, NumAddrScrape) \o extra \o again :
     pick \in [1..NumAddrScrape -> BOOLEAN],
     extra \in {<<>>, <<Loopback, Broadcast>>, <<ZeroNet, LinkLocal, Near0>>},
     again \in {<<>>, <<Public(1)>>}}

InitScrape ==
  /\ InitRun(<<>>, {}, {}, {NoFile}, {TRUE}, "start")
  /\ calls = <<>>
  /\ samples = <<>>
  /\ estimate = <<>>
  /\ channels = <<>>
  /\ resolver_ret = <<>>
  /\ reader = NoReader
  /\ net \in [kind : {"web"}, raised : BOOLEAN, status_code : {200, 404},
              found : PageMatches]
  /\ channel_ret = <<>>
  /\ probe_pc = <<>>
  /\ daemon = <<>>
  /\ hosts_file = <<>>

CallScrape ==
  /\ channel_ret = <<>>
  /\ net # <<>>
  /\ net.kind = "web"
  /\ \E r \in query_ipaddress_com(net) : channel_ret' = <<r>>
  /\ UNCHANGED <<config, cacheFile, workers, coordinator, calls, samples,
                 estimate, channels, resolver_ret, reader, net, probe_pc,
                 daemon, hosts_file>>

NextScrape == CallScrape

SpecScrape == InitScrape /\ [][NextScrape]_vars

\* C26: the scrape channel returns at most 5 addresses, all different, all
\* of them matches of the page outside the 127., 0. and 169.254. ranges, and
\* it returns the empty list when the fetch raised or the response is not a
\* 200.
C26_ScrapeCappedFiltered ==
  (channel_ret # <<>> /\ net.kind = "web") =>
    /\ Len(channel_ret[1]) <= 5
    /\ NoDuplicates(channel_ret[1])
    /\ \A a \in Range(channel_ret[1]) :
         a \in Range(net.found) /\ ~InReservedRange(a)
    /\ (net.raised \/ net.status_code # 200) => channel_ret[1] = <<>>

\* C26 witness: a page fetched with 200 that has more than five different
\* public addresses, reserved ones and a repeated one; five were returned.
C26_Witness ==
  /\ channel_ret # <<>>
  /\ net.kind = "web"
  /\ ~net.raised /\ net.status_code = 200
  /\ Cardinality({a \in Range(net.found) : ~InReservedRange(a)}) > 5
  /\ \E a \in Range(net.found) : InReservedRange(a)
  /\ ~NoDuplicates(net.found)
  /\ Len(channel_ret[1]) = 5

\* The thread of worker w is inside a call of update_cache.
InUpdateCache(w) == uc[w].ret # "none"

\* C27: within a run of get_fastest_ips every candidate is probed once;
\* update_cache is called when, and only when, a probe came back with a
\* reachable estimate, once, for that address and that estimate; a probe
\* that came back unreachable starts no call and leaves the cache file as
\* it is, and the file changes only inside a call of update_cache.
C27_CacheWriteIffReachable ==
  [][\A w \in Threads :
       LET appended == Len(results'[w]) = Len(results[w]) + 1
           item == results'[w][Len(results'[w])]
           called == ~InUpdateCache(w) /\ InUpdateCache(w)'
       IN  /\ appended => item[1] \in ips[w] \ Probed(w)
           /\ called <=> (appended /\ ~IsInf(item[2]))
           /\ called => /\ uc'[w].key = Key(domains[w], item[1])
                        /\ uc'[w].latency = item[2]
           /\ (appended /\ IsInf(item[2])) => cacheFile' = cacheFile
           /\ cacheFile' # cacheFile => \E v \in Threads : InUpdateCache(v)
    ]_vars

\* C27 witness: a finished run that began without a cache file, with one
\* candidate reachable and one not: the file has an entry, with count 1, for
\* the first and none for the second.
C27_Witness ==
  \E w \in Threads :
    /\ Finished(w)
    /\ cacheFile0 = NoFile
    /\ \E i, j \in 1..Len(results[w]) :
         /\ ~IsInf(results[w][i][2])
         /\ IsInf(results[w][j][2])
         /\ FileCount(cacheFile, Key(domains[w], results[w][i][1])) = 1
         /\ FileCount(cacheFile, Key(domains[w], results[w][j][1])) = 0

\* C30: whatever update_cache does, the estimate a probe returned stays
\* what the results of the run hold for its address: no step changes or
\* removes an entry of results once it is recorded.
C30_CacheFaultKeepsEstimate ==
  [][\A w \in Threads : \A i \in 1..Len(results[w]) :
       /\ Len(results'[w]) >= i
       /\ results'[w][i] = results[w][i]
    ]_vars

\* The text of the i-th entry line of the artifact.
EntryText(i) == Artifact[Len(HeaderLines) + i]
\* The line from its first "#" on.
Annotation(line) ==
  LET hashes == {i \in 1..Len(line) : line[i] = "#"}
  IN  IF hashes = {} THEN <<>>
      ELSE SubSeq(line, CHOOSE i \in hashes : \A j \in hashes : i <= j,
                  Len(line))
\* The estimate the result mapping holds for address a of hostname d.
EstimateOf(d, a) ==
  LET ip_list == batch_results[d]
  IN  ip_list[CHOOSE i \in 1..Len(ip_list) : ip_list[i][1] = a][2]

\* C29: a line of the artifact ends in "# timeout" if and only if the
\* estimate of its (address, hostname) entry is unreachable; every other
\* line ends in its latency in milliseconds.
C29_TimeoutIffUnreachable ==
  Rendered =>
    \A i \in 1..Len(content) :
      LET unreachable == IsInf(EstimateOf(content[i].domain, content[i].ip))
          note == Annotation(EntryText(i))
      IN  /\ note = <<"#", " ", "t">> <=> unreachable
          /\ ~unreachable => note = <<"#", " ", "m">>

\* C29 witness: an artifact with the line of an unreachable fallback entry
\* and, for another hostname, the line of a reachable one.
C29_Witness ==
  /\ Rendered
  /\ \E i, j \in 1..Len(content) :
       /\ IsInf(content[i].latency)
       /\ Annotation(EntryText(i)) = <<"#", " ", "t">>
       /\ ~IsInf(content[j].latency)
       /\ Annotation(EntryText(j)) = <<"#", " ", "m">>

(***************************************************************************)
(* The two thread pools of a batch: the pool of generate_hosts_file, whose *)
(* threads run get_fastest_ips for one hostname after the other, and the   *)
(* pool of get_fastest_ips, whose threads run test_tcp_latency for one     *)
(* candidate after the other.  A ThreadPoolExecutor has at most            *)
(* max_workers threads and hands its work items out in the order of their  *)
(* submission.                                                             *)
(***************************************************************************)
\* The i-th hostname of a long catalogue.
HostN(i) == [j \in 1..i |-> "h"]

\* The hostnames a thread of the pool of generate_hosts_file is running.
InFlightHosts ==
  {w \in Threads : pc[w] \notin {"queued", "done", "raised", "joined"}}

\* The thread of worker w is inside the with block of get_fastest_ips.
Probing(w) == pc[w] \in {"probe", "uc_load", "uc_open", "uc_write"}
\* The candidates of w whose probe has been handed to a thread, and the
\* ones whose probe a thread is running.
Taken(w) == DOMAIN probe_pc[w]
Running(w) == {a \in Taken(w) : probe_pc[w][a].st = "running"}
ProbeUpdate(w, ip, st, lat) ==
  [probe_pc EXCEPT ![w] =
     [a \in Taken(w) \cup {ip} |->
        IF a = ip THEN [st |-> st, lat |-> lat] ELSE probe_pc[w][a]]]

\* A thread of the pool of generate_hosts_file takes the next hostname off
\* the queue: ThreadPoolExecutor(max_workers=MAX_WORKERS).
Start(w) ==
  /\ pc[w] = "queued"
  /\ \A v \in Threads : v < w => pc[v] # "queued"
  /\ Cardinality(InFlightHosts) < MAX_WORKERS
  /\ pc' = [pc EXCEPT ![w] = "start"]
  /\ UNCHANGED <<config, cacheFile, resolved, ips, results, retval, uc,
                 coordinator, harness>>

\* Faulty variant: a thread for every probe submitted.
ProbeStart_Unbounded(w) ==
  /\ Probing(w)
  /\ \E ip \in ips[w] \ Taken(w) :
        probe_pc' = ProbeUpdate(w, ip, "running", Inf)
  /\ UNCHANGED <<config, cacheFile, workers, coordinator, calls, samples,
                 estimate, channels, resolver_ret, reader, net, channel_ret,
                 daemon, hosts_file>>

\* A thread of the pool of get_fastest_ips takes a probe off the queue:
\* ThreadPoolExecutor(max_workers=min(len(ips), 5)).
ProbeStart(w) ==
  /\ Probing(w)
  /\ Cardinality(Running(w)) < Min(Cardinality(ips[w]), MaxProbeThreads)
  /\ \E ip \in ips[w] \ Taken(w) :
        probe_pc' = ProbeUpdate(w, ip, "running", Inf)
  /\ UNCHANGED <<config, cacheFile, workers, coordinator, calls, samples,
                 estimate, channels, resolver_ret, reader, net, channel_ret,
                 daemon, hosts_file>>

\* Faulty variant: connects without a timeout, so that a probe whose connects
\* get no answer never returns.
ProbeReturn_NoTimeout(w) ==
  /\ \E ip \in Running(w),
        t \in [1..TCP_TEST_COUNT -> probe_samples \ {Inf}] :
        probe_pc' = ProbeUpdate(w, ip, "finished", test_tcp_latency(t))
  /\ UNCHANGED <<config, cacheFile, workers, coordinator, calls, samples,
                 estimate, channels, resolver_ret, reader, net, channel_ret,
                 daemon, hosts_file>>

\* test_tcp_latency returns in its thread, which is free again.
ProbeReturn(w) ==
  /\ \E ip \in Running(w), t \in [1..TCP_TEST_COUNT -> probe_samples] :
        probe_pc' = ProbeUpdate(w, ip, "finished", test_tcp_latency(t))
  /\ UNCHANGED <<config, cacheFile, workers, coordinator, calls, samples,
                 estimate, channels, resolver_ret, reader, net, channel_ret,
                 daemon, hosts_file>>

\* One turn of the as_completed loop of get_fastest_ips: it yields a future
\* that is finished.
ProbeCollect(w) ==
  /\ pc[w] = "probe"
  /\ \E ip \in Taken(w) :
        /\ probe_pc[w][ip].st = "finished"
        /\ LET lat == probe_pc[w][ip].lat
           IN  /\ probe_pc' = ProbeUpdate(w, ip, "collected", lat)
               /\ results' = [results EXCEPT ![w] = Append(@, <<ip, lat>>)]
               /\ IF ~IsInf(lat) /\ CACHE_ENABLED
                  THEN /\ uc' = [uc EXCEPT ![w] =
                                  [key |-> Key(domains[w], ip),
                                   latency |-> lat,
                                   cache |-> EmptyTbl, ret |-> "probe"]]
                       /\ pc' = [pc EXCEPT ![w] = "uc_load"]
                  ELSE UNCHANGED <<uc, pc>>
  /\ UNCHANGED <<config, cacheFile, resolved, ips, retval, coordinator,
                 calls, samples, estimate, channels, resolver_ret, reader,
                 net, channel_ret, daemon, hosts_file>>

\* A batch whose catalogue is longer than the pool of generate_hosts_file
\* (no hostname resolves), or a batch for one hostname with more candidates,
\* all from the cache, than the pool of get_fastest_ips has threads.
InitPool ==
  /\ \/ InitRun([i \in 1..NumHostsPool |-> HostN(i)], {}, {Inf}, {NoFile},
                {FALSE}, "queued")
     \/ InitRun(<<HostA>>, {}, {Inf},
                {JsonFile(TblOf({Key(HostA, a) : a \in Addrs(NumAddrPool)}))},
                {TRUE}, "queued")
  /\ calls = <<>>
  /\ samples = <<>>
  /\ estimate = <<>>
  /\ channels = <<>>
  /\ resolver_ret = <<>>
  /\ reader = NoReader
  /\ net = <<>>
  /\ channel_ret = <<>>
  /\ probe_pc = [w \in 1..Len(domains) |-> NoDict]
  /\ daemon = <<>>
  /\ hosts_file = <<>>

NextPool ==
  \/ \E w \in Threads : Start(w)
  \/ \E w \in Threads : Resolve(w)
  \/ \E w \in Threads : ReadCache(w)
  \/ \E w \in Threads : ProbeStart(w)
  \/ \E w \in Threads : ProbeReturn(w)
  \/ \E w \in Threads : ProbeCollect(w)
  \/ \E w \in Threads : Rank(w)

SpecPool == InitPool /\ [][NextPool]_vars

\* C28: in every state of a batch at most 10 hostnames are in flight, and
\* for each hostname in flight at most min(number of its candidates, 5)
\* probes are in flight.
C28_BoundedInFlight ==
  /\ Cardinality(InFlightHosts) <= 10
  /\ \A w \in InFlightHosts :
       Cardinality(Running(w)) <= Min(Cardinality(ips[w]), 5)

\* C28 witness: ten hostnames are in flight and one more is waiting for a
\* thread although hostnames before it have finished.
C28_Witness ==
  /\ Cardinality(InFlightHosts) = 10
  /\ \E w \in Threads : pc[w] = "queued"
  /\ \E w \in Threads : pc[w] = "done"

(***************************************************************************)
(* A whole batch, thread pools included, that is not held up: some thread  *)
(* that can take a step does take one.  Every call on the network returns  *)
(* (an answer, or its timeout).                                            *)
(***************************************************************************)
InitLive ==
  /\ \/ InitRun(<<HostA, HostAB>>, Addrs(NumAddrLive), {FromInt(10), Inf},
                InitialFiles \cup {MisshapenFile}, BOOLEAN, "queued")
     \/ InitRun(<<HostA, HostAB>>, Addrs(NumAddrLive), {Inf},
                InitialFiles, BOOLEAN, "queued")
  /\ calls = <<>>
  /\ samples = <<>>
  /\ estimate = <<>>
  /\ channels = <<>>
  /\ resolver_ret = <<>>
  /\ reader = NoReader
  /\ net = <<>>
  /\ channel_ret = <<>>
  /\ probe_pc = [w \in 1..Len(domains) |-> NoDict]
  /\ daemon = <<>>
  /\ hosts_file = <<>>

NextLive ==
  \/ \E w \in Threads : Start(w)
  \/ \E w \in Threads : Resolve(w)
  \/ \E w \in Threads : ReadCache(w)
  \/ \E w \in Threads : ProbeStart(w)
  \/ \E w \in Threads : ProbeReturn(w)
  \/ \E w \in Threads : ProbeCollect(w)
  \/ \E w \in Threads : UcLoad(w)
  \/ \E w \in Threads : UcOpen(w)
  \/ \E w \in Threads : UcWrite(w)
  \/ \E w \in Threads : Rank(w)
  \/ \E w \in Threads : Fold(w)
  \/ Render
  \/ UpdateResults
  \/ UpdateStats

SpecLive == InitLive /\ [][NextLive]_vars /\ WF_vars(NextLive)

\* Every probe that was handed to a thread has returned and been collected.
ProbesComplete(w) ==
  \A a \in Taken(w) : probe_pc[w][a].st = "collected"

\* C21: a batch terminates: generate_hosts_file returns; by then every
\* hostname worker has finished and been collected and every probe that was
\* started has completed; and from then on the result mapping does not
\* change any more.
C21_BatchTerminates ==
  /\ <>(RunOver /\ \A w \in Threads : pc[w] = "joined" /\ ProbesComplete(w))
  /\ [][RunOver => UNCHANGED <<batch_results, gs_results, results, retval>>]_vars

\* C21 witness: a batch that has returned after probes of both hostnames
\* were run, one of them reachable and one not.
C21_Witness ==
  /\ RunOver
  /\ \A w \in Threads : pc[w] = "joined" /\ Taken(w) # {} /\ ProbesComplete(w)
  /\ \E w \in Threads : Reachable(w) # {}
  /\ \E w \in Threads : Reachable(w) = {}

(***************************************************************************)
(* A run whose network and cache can name reserved addresses.              *)
(***************************************************************************)
InitReserved ==
  /\ InitRun(<<HostA>>, {Public(1), Public(2), Loopback, ZeroNet, LinkLocal},
             {FromInt(10), Inf},
             {NoFile, JsonFile(TblOf({Key(HostA, LinkLocal)}))},
             BOOLEAN, "start")
  /\ HarnessIdle

SpecReserved == InitReserved /\ [][NextRank]_vars

\* C31: no address of the 127., 0. or 169.254. ranges is probed or returned
\* in a Ranked Result, whichever channel or the cache supplied it.
C31_NoReservedProbed ==
  \A w \in Threads :
    \A a \in Probed(w) \cup ResultAddrs(w) : ~InReservedRange(a)

\* The addresses of a Ranked Result, in its order.
AddrsOf(ranked) == [i \in 1..Len(ranked) |-> ranked[i][1]]

\* C32: the addresses of a Ranked Result are pairwise distinct and all of
\* them are candidates gathered for the hostname in the same run.
C32_DistinctCandidates ==
  \A w \in Threads :
    /\ NoDuplicates(AddrsOf(retval[w]))
    /\ Range(AddrsOf(retval[w])) \subseteq ips[w]

\* C32 witness: a run with caching that gathered more than TOP_IP_COUNT
\* candidates, one of them from the cache alone, and returned TOP_IP_COUNT
\* of them.
C32_Witness ==
  \E w \in Threads :
    /\ Finished(w)
    /\ use_cache
    /\ ips[w] \ resolved[w] # {}
    /\ Cardinality(ips[w]) > TOP_IP_COUNT
    /\ Len(retval[w]) = TOP_IP_COUNT

(***************************************************************************)
(* The HTTP endpoint /hosts, over batches run at every catalogue level.    *)
(***************************************************************************)
\* DOMAIN_LEVELS, with one hostname per level.
DOMAIN_LEVELS ==
  [core |-> <<HostA>>, extended |-> <<HostAB>>, optional |-> <<HostLong>>]
Levels == {"core", "extended", "full"}

get_domain_list(level) ==
  IF level = "core" THEN DOMAIN_LEVELS.core
  ELSE IF level = "extended"
       THEN DOMAIN_LEVELS.core \o DOMAIN_LEVELS.extended
       ELSE DOMAIN_LEVELS.core \o DOMAIN_LEVELS.extended
              \o DOMAIN_LEVELS.optional

\* generate_hosts_content(results, level, multi_ip) with the counts of its
\* header line: len(results) of len(domains).
HostsPage(res, level, multi) ==
  [success |-> Cardinality(DOMAIN res),
   total |-> Len(get_domain_list(level)),
   lines |-> generate_hosts_content(res, get_domain_list(level), multi)]

\* b"# Hosts file not generated yet"
NotGenerated == [note |-> "not generated yet"]

\* A batch at any level whose workers have returned, before it is collected.
InitServe ==
  /\ \E level \in Levels : domains = get_domain_list(level)
  /\ pool = Addrs(MaxRanked)
  /\ probe_samples = {FromInt(10), Inf}
  /\ use_doh = TRUE
  /\ use_web = TRUE
  /\ use_cache = TRUE
  /\ multi_ip \in BOOLEAN
  /\ cacheFile = NoFile
  /\ cacheFile0 = cacheFile
  /\ pc = [w \in 1..Len(domains) |-> "done"]
  /\ retval \in [1..Len(domains) -> RankedChoices]
  /\ results = retval
  /\ ips = [w \in 1..Len(domains) |-> ResultAddrs(w)]
  /\ resolved = ips
  /\ uc = [w \in 1..Len(domains) |-> NoCall]
  /\ main_pc = "collect"
  /\ batch_results = NoDict
  /\ key_order = <<>>
  /\ success_count = 0
  /\ content = <<>>
  /\ gs_results = NoDict
  /\ gs_stats = NoStats
  /\ HarnessIdle

\* do_GET of the path /hosts: the published results rendered anew.
GetHosts ==
  /\ reader.pc = "idle"
  /\ reader' =
       [pc |-> "served", results |-> gs_results, stats |-> reader.stats,
        body |-> IF gs_results # NoDict
                 THEN HostsPage(gs_results, "extended", TRUE)
                 ELSE NotGenerated]
  /\ UNCHANGED <<config, cacheFile, workers, coordinator, calls, samples,
                 estimate, channels, resolver_ret, lab>>

NextServe ==
  \/ \E w \in Threads : Fold(w)
  \/ Render
  \/ UpdateResults
  \/ UpdateStats
  \/ GetHosts

SpecServe == InitServe /\ [][NextServe]_vars

\* The hostnames that have a line in the page.
PageDomains(page) == {page.lines[i].domain : i \in 1..Len(page.lines)}

\* C33: the page served by /hosts has a line for every hostname of the
\* published snapshot, whatever level the batch ran at, so that the number
\* of hostnames it renders is the success count of its header.
C33_ServedPageComplete ==
  (reader.pc = "served" /\ reader.results # NoDict) =>
    /\ DOMAIN reader.results \subseteq PageDomains(reader.body)
    /\ Cardinality(PageDomains(reader.body)) = reader.body.success

(***************************************************************************)
(* The daemon loop (daemon_worker) of the generator and of the service,    *)
(* run in the main thread, and the signal handler that stops it.  A batch  *)
(* starts with its workers returned; generate_hosts_file collects them,    *)
(* renders, writes and publishes as above.                                 *)
(***************************************************************************)
MaxBatches == 3

NoDaemon ==
  [pc |-> "test", is_running |-> TRUE, results |-> NoDict, stats |-> NoStats,
   failures |-> 0, started |-> 0, in_flight |-> 0]

InitDaemon ==
  /\ domains = <<HostA, HostAB>>
  /\ pool = Addrs(MaxRanked)
  /\ probe_samples = {FromInt(10), Inf}
  /\ use_doh = TRUE
  /\ use_web = TRUE
  /\ use_cache = TRUE
  /\ multi_ip = TRUE
  /\ cacheFile = NoFile
  /\ cacheFile0 = cacheFile
  /\ pc = [w \in 1..Len(domains) |-> "joined"]
  /\ retval = [w \in 1..Len(domains) |-> <<>>]
  /\ results = retval
  /\ ips = [w \in 1..Len(domains) |-> {}]
  /\ resolved = ips
  /\ uc = [w \in 1..Len(domains) |-> NoCall]
  /\ main_pc = "idle"
  /\ batch_results = NoDict
  /\ key_order = <<>>
  /\ success_count = 0
  /\ content = <<>>
  /\ gs_results = NoDict
  /\ gs_stats = NoStats
  /\ calls = <<>>
  /\ samples = <<>>
  /\ estimate = <<>>
  /\ channels = <<>>
  /\ resolver_ret = <<>>
  /\ reader = NoReader
  /\ net = <<>>
  /\ channel_ret = <<>>
  /\ probe_pc = <<>>
  /\ hosts_file = <<>>
  /\ \E kind \in {"service", "generator"} :
        daemon = [kind |-> kind] @@ NoDaemon

\* generate_hosts_file is entered: its workers run and return.
EnterBatch ==
  /\ pc' = [w \in Threads |-> "done"]
  /\ retval' \in [Threads -> RankedChoices]
  /\ results' = retval'
  /\ ips' = [w \in Threads |->
               {retval'[w][i][1] : i \in 1..Len(retval'[w])}]
  /\ resolved' = ips'
  /\ main_pc' = "collect"
  /\ batch_results' = NoDict
  /\ key_order' = <<>>
  /\ success_count' = 0
  /\ content' = <<>>

\* Faulty variant: the batch handed to a thread of its own, the loop going
\* on to its next turn.
LoopTest_Background ==
  /\ daemon.pc = "test"
  /\ daemon.started < MaxBatches
  /\ daemon' = [daemon EXCEPT !.started = @ + 1, !.in_flight = @ + 1]
  /\ EnterBatch
  /\ UNCHANGED <<config, cacheFile, uc, gs_results, gs_stats, calls, samples,
                 estimate, channels, resolver_ret, reader, net, channel_ret,
                 probe_pc, hosts_file>>

\* while global_state.is_running: ... generate_hosts_file(...)
LoopTest ==
  /\ daemon.pc = "test"
  /\ IF daemon.is_running
     THEN /\ daemon.started < MaxBatches
          /\ daemon' = [daemon EXCEPT !.pc = "batch", !.started = @ + 1,
                                      !.in_flight = @ + 1]
          /\ EnterBatch
          /\ UNCHANGED <<config, cacheFile, uc, gs_results, gs_stats>>
     ELSE /\ daemon' = [daemon EXCEPT !.pc = "exited"]
          /\ UNCHANGED <<config, cacheFile, workers, coordinator>>
  /\ UNCHANGED <<calls, samples, estimate, channels, resolver_ret, reader,
                 net, channel_ret, probe_pc, hosts_file>>

\* Faulty variant: the result of generate_hosts_file unpacked outside the
\* try of the loop.
BatchReturn_Uncaught ==
  /\ daemon.pc = "batch"
  /\ main_pc \in {"finished", "returned"}
  /\ daemon' =
       IF main_pc = "finished"
       THEN [daemon EXCEPT !.pc = "wait", !.in_flight = @ - 1,
                           !.results = batch_results, !.stats = gs_stats]
       ELSE [daemon EXCEPT !.pc = "exited", !.in_flight = @ - 1]
  /\ UNCHANGED <<config, cacheFile, workers, coordinator, calls, samples,
                 estimate, channels, resolver_ret, reader, net, channel_ret,
                 probe_pc, hosts_file>>

\* generate_hosts_file returned: <<results, stats>>, or None after a failed
\* write (which it logged).  The service unpacks the value and publishes it
\* in its own GlobalState; unpacking None raises TypeError, which the except
\* of the loop logs before time.sleep(60).  The generator ignores the value.
BatchReturn ==
  /\ daemon.pc = "batch"
  /\ main_pc \in {"finished", "returned"}
  /\ daemon' =
       IF main_pc = "finished"
       THEN IF daemon.kind = "service"
            THEN [daemon EXCEPT !.pc = "wait", !.in_flight = @ - 1,
                                !.results = batch_results, !.stats = gs_stats]
            ELSE [daemon EXCEPT !.pc = "wait", !.in_flight = @ - 1]
       ELSE [daemon EXCEPT !.pc = IF daemon.kind = "service"
                                  THEN "backoff" ELSE "wait",
                           !.in_flight = @ - 1, !.failures = @ + 1]
  /\ UNCHANGED <<config, cacheFile, workers, coordinator, calls, samples,
                 estimate, channels, resolver_ret, reader, net, channel_ret,
                 probe_pc, hosts_file>>

\* The wait for the next update (a second at a time, left early when
\* is_running is cleared), or time.sleep(60) after a failure, is over.
WaitOver ==
  /\ daemon.pc \in {"wait", "backoff"}
  /\ daemon' = [daemon EXCEPT !.pc = "test"]
  /\ UNCHANGED <<config, cacheFile, workers, coordinator, calls, samples,
                 estimate, channels, resolver_ret, reader, net, channel_ret,
                 probe_pc, hosts_file>>

\* signal_handler, run in the main thread between two of its instructions:
\* global_state.stop(), then sys.exit(0), whose SystemExit no except of the
\* main thread catches; a batch in flight is left where it stands.
Signal ==
  /\ daemon.pc # "exited"
  /\ daemon' = [daemon EXCEPT !.is_running = FALSE, !.pc = "exited",
                              !.in_flight = 0]
  /\ main_pc' = IF daemon.pc = "batch" THEN "interrupted" ELSE main_pc
  /\ UNCHANGED <<config, cacheFile, workers, batch_results, key_order,
                 success_count, content, gs_results, gs_stats, calls, samples,
                 estimate, channels, resolver_ret, reader, net, channel_ret,
                 probe_pc, hosts_file>>

DaemonStep ==
  \/ LoopTest
  \/ \E w \in Threads : Fold(w)
  \/ Render
  \/ UpdateResults
  \/ UpdateStats
  \/ BatchReturn
  \/ WaitOver

NextDaemon == DaemonStep \/ Signal

\* The main thread goes on while it can; a signal may come or not.
SpecDaemon == InitDaemon /\ [][NextDaemon]_vars /\ WF_vars(DaemonStep)

\* What is published: global_state of the generator and of the service.
Snapshot == <<gs_results, gs_stats, daemon.results, daemon.stats>>
\* generate_hosts_file has returned without having written the artifact.
WriteFailed == daemon.pc = "batch" /\ main_pc = "returned"

\* C34: a batch of the daemon whose artifact cannot be written leaves the
\* published snapshot as it was, from its start to its return, and the loop
\* survives it: the failure is logged, the loop waits, comes back to its
\* test and, unless it was stopped meanwhile, starts the next batch; the
\* loop is only ever left by being stopped.
C34_FailedWriteSurvived ==
  /\ [][(main_pc \in {"collect", "returned"} \/ main_pc' = "returned")
          => Snapshot' = Snapshot]_vars
  /\ [][(WriteFailed /\ daemon'.pc # "batch")
          => \/ ~daemon'.is_running
             \/ /\ daemon'.pc \in {"wait", "backoff"}
                /\ daemon'.failures = daemon.failures + 1]_vars
  /\ [](daemon.pc = "exited" => ~daemon.is_running)
  /\ \A n \in 1..(MaxBatches - 1) :
        (WriteFailed /\ daemon.started = n)
          ~> (daemon.started = n + 1 \/ ~daemon.is_running)

\* C34 witness: the service published a snapshot, its next batch failed to
\* write and was logged, and a third batch is in flight, the snapshot still
\* being the first one.
C34_Witness ==
  /\ daemon.kind = "service"
  /\ daemon.pc = "batch"
  /\ daemon.started = 3
  /\ daemon.failures = 1
  /\ daemon.results # NoDict
  /\ daemon.results = gs_results
  /\ main_pc = "collect"
  /\ \E w \in Threads : pc[w] = "joined" /\ retval[w] # <<>>
                          /\ domains[w] \notin DOMAIN gs_results

\* C35: the daemon loop runs its batches one after another, at most one
\* being in flight at any time; once is_running is cleared no batch is
\* started any more, and the loop exits.
C35_OneBatchThenStop ==
  /\ [](daemon.in_flight <= 1)
  /\ [](daemon.in_flight = 1 <=> daemon.pc = "batch")
  /\ [][~daemon.is_running => daemon'.started = daemon.started]_vars
  /\ (~daemon.is_running) ~> (daemon.pc = "exited")
  /\ [][daemon.pc = "exited" => UNCHANGED vars]_vars

\* C35 witness: the loop was stopped while its second batch was in flight,
\* after the first had completed; it has exited.
C35_Witness ==
  /\ daemon.pc = "exited"
  /\ ~daemon.is_running
  /\ daemon.started = 2
  /\ main_pc = "interrupted"
  /\ gs_results # NoDict

(***************************************************************************)
(* The installer (install_hosts.py).  A text is the list of its lines,     *)
(* content.split('\n'); a line is a list of characters.                    *)
(***************************************************************************)
MaxLines == 4

BEGIN_MARKER == <<"#", "B">>
END_MARKER == <<"#", "E">>

\* line.strip(), the blanks being spaces.
RECURSIVE LStrip(_)
LStrip(line) ==
  IF line # <<>> /\ Head(line) = " " THEN LStrip(Tail(line)) ELSE line
RECURSIVE RStrip(_)
RStrip(line) ==
  IF line # <<>> /\ line[Len(line)] = " "
  THEN RStrip(SubSeq(line, 1, Len(line) - 1)) ELSE line
Strip(line) == LStrip(RStrip(line))

\* Faulty variant: only the marker lines dropped, what stands between them
\* kept.
RECURSIVE RemoveLoop_MarkersOnly(_, _)
RemoveLoop_MarkersOnly(lines, in_block) ==
  IF lines = <<>> THEN <<>>
  ELSE IF Strip(Head(lines)) \in {BEGIN_MARKER, END_MARKER}
       THEN RemoveLoop_MarkersOnly(Tail(lines), in_block)
       ELSE <<Head(lines)>> \o RemoveLoop_MarkersOnly(Tail(lines), in_block)

\* The for loop of remove_old_block over the lines left, in_block being its
\* flag: the lines it appends to result.
RECURSIVE RemoveLoop(_, _)
RemoveLoop(lines, in_block) ==
  IF lines = <<>> THEN <<>>
  ELSE IF Strip(Head(lines)) = BEGIN_MARKER
       THEN RemoveLoop(Tail(lines), TRUE)
       ELSE IF Strip(Head(lines)) = END_MARKER
            THEN RemoveLoop(Tail(lines), FALSE)
            ELSE (IF in_block THEN <<>> ELSE <<Head(lines)>>)
                   \o RemoveLoop(Tail(lines), in_block)

\* '\n'.join(result) as the list of its lines: the text of no line is the
\* text of one empty line.
Joined(result) == IF result = <<>> THEN << <<>> >> ELSE result

remove_old_block(text) == Joined(RemoveLoop(text, FALSE))

\* Lines of a hosts file: the markers, one of them indented, entries, and
\* the empty line.
HostsLines ==
  {BEGIN_MARKER, <<" ", "#", "B">>, END_MARKER, <<"x">>, <<"y">>, <<>>}
\* The texts of up to n lines.
TextsUpTo(n) == UNION {[1..k -> HostsLines] : k \in 1..n}

InitRemove ==
  /\ InitRun(<<>>, {}, {}, {NoFile}, {TRUE}, "start")
  /\ calls = <<>>
  /\ samples = <<>>
  /\ estimate = <<>>
  /\ channels = <<>>
  /\ resolver_ret = <<>>
  /\ reader = NoReader
  /\ net = <<>>
  /\ channel_ret = <<>>
  /\ probe_pc = <<>>
  /\ daemon = <<>>
  /\ hosts_file \in [lines : TextsUpTo(MaxLines), ret : {<<>>}]

CallRemove ==
  /\ hosts_file.ret = <<>>
  /\ hosts_file' =
       [hosts_file EXCEPT !.ret = <<remove_old_block(hosts_file.lines)>>]
  /\ UNCHANGED <<config, cacheFile, workers, coordinator, calls, samples,
                 estimate, channels, resolver_ret, reader, net, channel_ret,
                 probe_pc, daemon>>

NextRemove == CallRemove

SpecRemove == InitRemove /\ [][NextRemove]_vars

IsBegin(line) == Strip(line) = BEGIN_MARKER
IsEnd(line) == Strip(line) = END_MARKER
\* Line k of the text stands in a block: from a BEGIN marker through the
\* first END marker after it.
InBlock(text, k) ==
  \E i \in 1..k, j \in k..Len(text) :
    /\ IsBegin(text[i])
    /\ IsEnd(text[j])
    /\ \A m \in i..(j - 1) : ~IsEnd(text[m])
\* The lines of the text from place k on that stand in no block, in order.
RECURSIVE OutsideFrom(_, _)
OutsideFrom(text, k) ==
  IF k > Len(text) THEN <<>>
  ELSE (IF InBlock(text, k) THEN <<>> ELSE <<text[k]>>)
         \o OutsideFrom(text, k + 1)
OutsideBlocks(text) == OutsideFrom(text, 1)

\* The lines of the text that are no markers, in order.
RECURSIVE NonMarkers(_)
NonMarkers(text) ==
  IF text = <<>> THEN <<>>
  ELSE (IF IsBegin(Head(text)) \/ IsEnd(Head(text)) THEN <<>>
        ELSE <<Head(text)>>) \o NonMarkers(Tail(text))

\* C36: remove_old_block returns the text without the lines from a BEGIN
\* marker through its matching END marker and with every other line kept
\* in place, for every text, one with a BEGIN marker that no END marker
\* follows included.  (Stated for the lines that are no markers; a marker
\* without its partner may stay or go.)
C36_RemovesExactlyBlocks ==
  hosts_file.ret # <<>> =>
    Joined(NonMarkers(hosts_file.ret[1]))
      = Joined(NonMarkers(OutsideBlocks(hosts_file.lines)))

(***************************************************************************)
(* install_hosts, run again and again on a hosts file.                     *)
(***************************************************************************)
MaxInstalls == 2

\* text.rstrip('\n'): the empty lines at the end dropped.
RECURSIVE RStripNewlines(_)
RStripNewlines(text) ==
  IF Len(text) > 1 /\ text[Len(text)] = <<>>
  THEN RStripNewlines(SubSeq(text, 1, Len(text) - 1))
  ELSE text

\* The three comment lines that head a block (the second holds the time).
BlockHead == << <<"#", "a">>, <<"#", "t">>, <<"#", "d">> >>

\* generate_hosts_block: the lines of its f-string, github_content being
\* the stripped text of the generated file.
generate_hosts_block(github_content) ==
  << <<>>, BEGIN_MARKER >> \o BlockHead \o github_content
    \o << END_MARKER, <<>> >>

\* merge_hosts: cleaned_content + '\n' + github_block + '\n'
merge_hosts(original_content, github_content) ==
  RStripNewlines(remove_old_block(original_content))
    \o generate_hosts_block(github_content) \o << <<>> >>

\* What the generator wrote, stripped, at different times.
Generated == { << <<"g">> >>, << <<"h">>, <<"g">> >> }

InitInstall ==
  /\ InitRun(<<>>, {}, {}, {NoFile}, {TRUE}, "start")
  /\ calls = <<>>
  /\ samples = <<>>
  /\ estimate = <<>>
  /\ channels = <<>>
  /\ resolver_ret = <<>>
  /\ reader = NoReader
  /\ net = <<>>
  /\ channel_ret = <<>>
  /\ probe_pc = <<>>
  /\ daemon = <<>>
  /\ \E text \in TextsUpTo(MaxLines) :
        hosts_file = [before |-> text, lines |-> text, installs |-> 0,
                      latest |-> <<>>]

\* install_hosts with the generated file holding github_content; a hosts
\* file that cannot be written ends the run and stays as it is.
Install ==
  /\ hosts_file.installs < MaxInstalls
  /\ \E github_content \in Generated, written \in BOOLEAN :
        hosts_file' =
          IF written
          THEN [hosts_file EXCEPT
                  !.lines = merge_hosts(hosts_file.lines, github_content),
                  !.installs = @ + 1,
                  !.latest = github_content]
          ELSE hosts_file
  /\ UNCHANGED <<config, cacheFile, workers, coordinator, calls, samples,
                 estimate, channels, resolver_ret, reader, net, channel_ret,
                 probe_pc, daemon>>

NextInstall == Install

SpecInstall == InitInstall /\ [][NextInstall]_vars

\* The places of the BEGIN and of the END markers of a text.
Begins(text) == {i \in 1..Len(text) : IsBegin(text[i])}
Ends(text) == {i \in 1..Len(text) : IsEnd(text[i])}
\* The lines of the text that are neither markers nor empty, in order.
RECURSIVE Entries(_)
Entries(text) ==
  IF text = <<>> THEN <<>>
  ELSE (IF IsBegin(Head(text)) \/ IsEnd(Head(text)) \/ Head(text) = <<>>
        THEN <<>> ELSE <<Head(text)>>) \o Entries(Tail(text))

\* C37: after any number of installs the hosts file holds exactly one
\* BEGIN/END block, the block holds the content generated last, and the
\* lines outside the block are the lines that stood outside a block before
\* the first install.  (Stated for the lines that are neither markers nor
\* empty.)
C37_InstallIdempotent ==
  hosts_file.installs >= 1 =>
    LET text == hosts_file.lines
    IN  /\ Cardinality(Begins(text)) = 1
        /\ Cardinality(Ends(text)) = 1
        /\ \E b \in Begins(text), e \in Ends(text) :
              /\ b < e
              /\ SubSeq(text, b + 1, e - 1) = BlockHead \o hosts_file.latest
        /\ Entries(OutsideBlocks(text))
              = Entries(OutsideBlocks(hosts_file.before))

(***************************************************************************)
(* The basic generator's score of an address (test_ip_comprehensive), on   *)
(* every pair of a ping and a TCP measurement.                             *)
(***************************************************************************)
NumScores == 9

\* x * y on finite floats.
FMul(x, y) == RoundFloat(x.m * y.m, 1, x.e + y.e)

\* The float literals 0.6 and 0.4, and the int 1000 taken as a float.
Point6 == RoundFloat(3, 5, 0)
Point4 == RoundFloat(2, 5, 0)
Penalty == FromInt(1000)

\* Faulty variant: unreachable as soon as one of the two failed.
test_ip_comprehensive_EitherFailed(ping_time, tcp_time) ==
  IF IsInf(ping_time) \/ IsInf(tcp_time) THEN Inf
  ELSE FAdd(FMul(ping_time, Point6), FMul(tcp_time, Point4))

\* test_ip_comprehensive, given what test_ping and test_tcp_speed returned.
test_ip_comprehensive(ping_time, tcp_time) ==
  IF IsInf(ping_time) /\ IsInf(tcp_time) THEN Inf
  ELSE LET ping_score == IF ~IsInf(ping_time) THEN ping_time ELSE Penalty
           tcp_score == IF ~IsInf(tcp_time) THEN tcp_time ELSE Penalty
       IN  FAdd(FMul(ping_score, Point6), FMul(tcp_score, Point4))

\* What a measurement may return: a latency in ms, or float('inf').
ScoreSamples == {FromInt(7 * i) : i \in 1..NumScores} \cup {Inf}

InitScore ==
  /\ InitRun(<<>>, {}, {}, {NoFile}, {TRUE}, "start")
  /\ samples \in [ping : ScoreSamples, tcp : ScoreSamples]
  /\ estimate = <<>>
  /\ calls = <<>>
  /\ channels = <<>>
  /\ resolver_ret = <<>>
  /\ reader = NoReader
  /\ LabIdle

Score ==
  /\ estimate = <<>>
  /\ estimate' = <<test_ip_comprehensive(samples.ping, samples.tcp)>>
  /\ UNCHANGED <<config, cacheFile, workers, coordinator, calls, samples,
                 channels, resolver_ret, reader, lab>>

NextScore == Score

SpecScore == InitScore /\ [][NextScore]_vars

\* A measurement, with 1000 ms in place of a failed one.
OrPenalty(x) == IF IsInf(x) THEN Penalty ELSE x

\* C38: the score is unreachable exactly when both the ping and the TCP
\* measurement failed; when exactly one of them failed it is finite and is
\* 0.6 * ping + 0.4 * tcp with 1000 ms standing for the failed one.
C38_ScoreUnreachableIffBoth ==
  estimate # <<>> =>
    LET ping == samples.ping
        tcp == samples.tcp
        score == estimate[1]
    IN  /\ IsInf(score) <=> (IsInf(ping) /\ IsInf(tcp))
        /\ (IsInf(ping) # IsInf(tcp)) =>
              /\ ~IsInf(score)
              /\ score = FAdd(FMul(Point6, OrPenalty(ping)),
                              FMul(Point4, OrPenalty(tcp)))

\* C38 witness: the ping failed, the TCP measurement did not, and the score
\* is a finite value above 600 ms.
C38_Witness ==
  /\ estimate # <<>>
  /\ samples \in [ping : {Inf}, tcp : ScoreSamples \ {Inf}]
  /\ ~IsInf(estimate[1])
  /\ FLess(FromInt(600), estimate[1])

====
